---- MODULE Spec2Model ----
(***************************************************************************)
(* Bridge Observation & Resilience Core of the Godot AI bridge MCP server. *)
(*                                                                         *)
(*   client.py         GodotClient: persistent channel, clamped timeout,   *)
(*                     one retry on a connection-level fault               *)
(*   runtime_tools.py  _check_runtime: the TTL liveness cache and the      *)
(*                     crash diagnostics                                   *)
(*   editor_tools.py   godot_run_game: the launch gate, and the startup    *)
(*                     error classifier                                    *)
(*                                                                         *)
(* Time is counted in whole seconds.  A channel (httpx.AsyncClient) is a   *)
(* positive integer, allocated in increasing order; 0 stands for None.     *)
(* An optional value (None or v) is the sequence <<>> or <<v>>.            *)
(***************************************************************************)
EXTENDS Integers, Sequences, FiniteSets, TLC

\* ------------------------------------------------------------- bounds

\* Channels the transport may break (close after a fault) in one run.
MaxFaults == 2
\* Largest reading of the monotonic clock.
MaxClock == 6
\* Longest text, in lines, the classifier and the diagnostics are applied to.
MaxLines == 3
\* Calls of one of them in a row.
MaxCalls == 2

\* ---------------------------------------------------- program constants

MAX_TIMEOUT == 120
DEFAULT_TIMEOUT == 30
CACHE_TTL == 2

Endpoints == {"editor", "runtime"}
Tasks == {1, 2}
\* The tasks of the sequential specifications: one call at a time.
SeqTasks == {1}

Min2(a, b) == IF a <= b THEN a ELSE b

None == <<>>
Some(v) == <<v>>

\* ------------------------------------------------------------ variables

VARIABLES
    ctorTimeout,   \* [Endpoints -> Nat]: the timeout argument of __init__
    selfTimeout,   \* [Endpoints -> Nat]: GodotClient.timeout
    client,        \* [Endpoints -> Nat]: GodotClient._client (0: None)
    closed,        \* the channels with is_closed = True
    nextChan,      \* the next channel to be created
    call,          \* [Tasks -> call record]: the get/post each task is in
    faulted,       \* history: channels on which a connection-level fault was raised
    sentOnFaulted, \* history: some request was sent on a channel of faulted
    clock,         \* time.monotonic()
    last_ok,       \* _runtime_cache["last_ok"] (0: never confirmed)
    chk,           \* [Tasks -> check record]: the _check_runtime each task is in
    okStamps,      \* history: the timestamps of the checks whose probe succeeded
    lastProbe,     \* history: how the latest probe ended ("none", "ok", "fail")
    diagRuns,      \* history: crash diagnostics run since the latest successful probe
    lastReturn,    \* history: what the latest check returned ("none", "Ready", "Unreachable")
    gate,          \* the godot_run_game invocation: its locals, and history fields
    tool,          \* [Tasks -> tool record]: the runtime tool each task is in
    txt,           \* a log text, and what the classifier and the diagnostics make of it
    remote         \* the running game: its event accumulator and its snapshot baseline

clientVars == <<ctorTimeout, selfTimeout, client, closed, nextChan, call,
                faulted, sentOnFaulted>>
liveVars == <<clock, last_ok, chk, okStamps, lastProbe, diagRuns, lastReturn>>
gateVars == <<gate>>
toolVars == <<tool>>
textVars == <<txt>>
remoteVars == <<remote>>

\* ----------------------------------------------------------------- text

(***************************************************************************)
(* A line of log text is a sequence of lexemes, and a text is the sequence *)
(* of its lines, as text.split("\n") gives them: the empty string is the   *)
(* one empty line <<<<>>>>.  A lexeme stands for the characters it spells; *)
(* the lexemes are chosen so that one string contains another exactly when *)
(* its lexeme sequence contains the other's as a segment.                  *)
(***************************************************************************)
WS == {" "}

\* str.lower, lexeme by lexeme.
LowerLexeme(x) ==
    CASE x = "SCRIPT" -> "script"
      [] x = "ERROR" -> "error"
      [] x = "Error" -> "error"
      [] x = "Parse" -> "parse"
      [] x = "Node" -> "node"
      [] x = "WARNING" -> "warning"
      [] OTHER -> x

Lower(s) == [i \in 1..Len(s) |-> LowerLexeme(s[i])]

RECURSIVE LStrip(_)
LStrip(s) == IF s # <<>> /\ Head(s) \in WS THEN LStrip(Tail(s)) ELSE s

RECURSIVE RStrip(_)
RStrip(s) ==
    IF s # <<>> /\ s[Len(s)] \in WS THEN RStrip(SubSeq(s, 1, Len(s) - 1)) ELSE s

\* str.strip of one line.
Strip(s) == RStrip(LStrip(s))

\* p in s
Contains(s, p) ==
    \E i \in 1..(Len(s) - Len(p) + 1) : SubSeq(s, i, i + Len(p) - 1) = p

StripAll(lines) == [i \in 1..Len(lines) |-> Strip(lines[i])]

\* The lines of s in order, each kept at its first occurrence only.
RECURSIVE Unique(_, _)
Unique(s, seen) ==
    IF s = <<>> THEN <<>>
    ELSE IF Head(s) \in seen
         THEN Unique(Tail(s), seen)
         ELSE <<Head(s)>> \o Unique(Tail(s), seen \cup {Head(s)})

\* s[-n:] for n > 0
LastN(s, n) == IF Len(s) > n THEN SubSeq(s, Len(s) - n + 1, Len(s)) ELSE s

EmptyText == << <<>> >>

\* utils.ERROR_MARKERS
ERROR_MARKERS ==
    { <<"error">>, <<"exception">>, <<"traceback">>,
      <<"script", " ", "error">>, <<"node", " ", "not", " ", "found">> }

\* utils.is_error_line
IsErrorLine(line) ==
    LET stripped == Strip(line)
    IN  IF stripped = <<>> THEN FALSE
        ELSE \E m \in ERROR_MARKERS : Contains(Lower(stripped), m)

\* The log lines the remote services answer with.
\*   "x"   "ERROR: x"   "SCRIPT ERROR: x res://a:4"   the same with a leading
\*   blank   " "
LinePlain == <<"x">>
LineAdvisory == <<"ERROR", ":", " ", "x">>
LineFatal == <<"SCRIPT", " ", "ERROR", ":", " ", "x", " ", "res://", "a", ":", "4">>
LineFatalPadded == <<" ">> \o LineFatal
LineBlank == <<" ">>

LogTexts ==
    { EmptyText,
      <<LinePlain>>,
      <<LineAdvisory, LinePlain, LineAdvisory>>,
      <<LineFatal, LineBlank, LineAdvisory, LineFatalPadded>> }

\* -------------------------------------------------- startup error classifier

\* editor_tools._FATAL_PATTERNS
FATAL_PATTERNS ==
    { <<"node", " ", "not", " ", "found">>,
      <<"cannot", " ", "call", " ", "method">>,
      <<"invalid", " ", "access">>,
      <<"invalid", " ", "call">>,
      <<"script", " ", "error">>,
      <<"parse", " ", "error">> }

IsFatalError_AnyError(line) == IsErrorLine(line)

\* editor_tools._is_fatal_error
IsFatalError(line) ==
    LET lowered == Lower(Strip(line))
    IN  IF lowered = <<>> THEN FALSE
        ELSE \E p \in FATAL_PATTERNS : Contains(lowered, p)

Digits == {"0", "1", "2", "3", "4", "5", "6", "7", "8", "9"}

DigitValue(d) == CHOOSE n \in 0..9 : ToString(n) = d

\* int(digits)
RECURSIVE IntOf(_)
IntOf(ds) ==
    IF ds = <<>> THEN 0
    ELSE 10 * IntOf(SubSeq(ds, 1, Len(ds) - 1)) + DigitValue(ds[Len(ds)])

\* A lexeme of the class [^\s:,)]: "res://" holds a colon and is none.
PathLexeme(x) == x \notin WS \cup {":", ",", ")", "res://"}

IsDigit(x) == x \in Digits
IsSpace(x) == x \in WS

\* The character classes of the two patterns: [^\s:,)], \d and \s.
InClass(x, class) ==
    CASE class = "path" -> PathLexeme(x)
      [] class = "digit" -> IsDigit(x)
      [] class = "space" -> IsSpace(x)

\* The end of the longest run of lexemes of a class that starts at i (i - 1
\* when s[i] is not of the class).
RECURSIVE RunEnd(_, _, _)
RunEnd(s, i, class) ==
    IF i <= Len(s) /\ InClass(s[i], class) THEN RunEnd(s, i + 1, class) ELSE i - 1

\* _FILE_LINE_RE matches at i: res://, a non-empty run of path lexemes, a
\* colon, a non-empty run of digits.
FileLineAt(s, i) ==
    /\ s[i] = "res://"
    /\ LET j == RunEnd(s, i + 1, "path")
       IN  /\ j > i
           /\ j + 2 <= Len(s)
           /\ s[j + 1] = ":"
           /\ IsDigit(s[j + 2])

\* _SCRIPT_ERROR_RE: the alternatives, in the order the pattern tries them,
\* matched without regard to case.
ERROR_PREFIXES ==
    << <<"script", " ", "error">>, <<"parse", " ", "error">>, <<"error">> >>

\* The index where group 1 starts when alternative p matches at i (0: no
\* match): p, \s*, a colon, \s*, and at least one more character.
PrefixAt(s, i, p) ==
    IF i + Len(p) - 1 <= Len(s) /\ Lower(SubSeq(s, i, i + Len(p) - 1)) = p
    THEN LET c == RunEnd(s, i + Len(p), "space") + 1
         IN  IF c <= Len(s) /\ s[c] = ":"
             THEN LET g == RunEnd(s, c + 1, "space") + 1
                  IN  IF g <= Len(s) THEN g ELSE 0
             ELSE 0
    ELSE 0

PrefixMatchAt(s, i) ==
    LET hits == {n \in 1..Len(ERROR_PREFIXES) : PrefixAt(s, i, ERROR_PREFIXES[n]) > 0}
    IN  IF hits = {} THEN 0
        ELSE PrefixAt(s, i, ERROR_PREFIXES[CHOOSE n \in hits : \A m \in hits : n <= m])

SearchStart_Last(at) == CHOOSE i \in at : \A j \in at : i >= j

\* re.search: of the positions where the pattern matches, the leftmost.
SearchStart(at) == CHOOSE i \in at : \A j \in at : i <= j

\* editor_tools._parse_error_line
ParseErrorLine(line) ==
    LET stripped == Strip(line)
        at == {i \in 1..Len(stripped) : FileLineAt(stripped, i)}
        m == SearchStart(at)
        pe == RunEnd(stripped, m + 1, "path")
        de == RunEnd(stripped, pe + 2, "digit")
        at2 == {i \in 1..Len(stripped) : PrefixMatchAt(stripped, i) > 0}
        m2 == SearchStart(at2)
    IN  [message |-> IF at2 = {} THEN stripped
                     ELSE Strip(SubSeq(stripped, PrefixMatchAt(stripped, m2), Len(stripped))),
         file |-> IF at = {} THEN None ELSE Some(SubSeq(stripped, m, pe)),
         line |-> IF at = {} THEN None ELSE Some(IntOf(SubSeq(stripped, pe + 2, de)))]

DedupKey_Raw(line) == line

\* key = line.strip()
DedupKey(line) == Strip(line)

RECURSIVE CollectFrom(_, _)
CollectFrom(lines, seen) ==
    IF lines = <<>> THEN <<>>
    ELSE LET line == Head(lines)
             key == DedupKey(line)
         IN  IF IsFatalError(line) /\ key \notin seen
             THEN <<ParseErrorLine(line)>> \o CollectFrom(Tail(lines), seen \cup {key})
             ELSE CollectFrom(Tail(lines), seen)

\* editor_tools._collect_startup_errors
CollectStartupErrors(output) == CollectFrom(output, {})

IsBlank(line) == Strip(line) = <<>>

RECURSIVE DropBlankHead(_)
DropBlankHead(lines) ==
    IF lines # <<>> /\ IsBlank(Head(lines)) THEN DropBlankHead(Tail(lines)) ELSE lines

RECURSIVE DropBlankTail(_)
DropBlankTail(lines) ==
    IF lines # <<>> /\ IsBlank(lines[Len(lines)])
    THEN DropBlankTail(SubSeq(lines, 1, Len(lines) - 1)) ELSE lines

\* str.strip of a whole text: line breaks are whitespace too.
StripText(text) ==
    LET kept == DropBlankTail(DropBlankHead(text))
        n == Len(kept)
    IN  IF n = 0 THEN EmptyText
        ELSE IF n = 1 THEN <<Strip(kept[1])>>
        ELSE <<LStrip(kept[1])>> \o SubSeq(kept, 2, n - 1) \o <<RStrip(kept[n])>>

\* _truncate_log_tail(output, max_lines=60)
MAX_LOG_LINES == 60

\* lines[-n:]: the whole list when n = 0.
SliceLast(lines, n) ==
    IF n = 0 \/ Len(lines) <= n THEN lines
    ELSE SubSeq(lines, Len(lines) - n + 1, Len(lines))

\* editor_tools._truncate_log_tail
TruncateLogTail(output, max_lines) ==
    LET lines == StripText(output)
    IN  IF Len(lines) > max_lines THEN SliceLast(lines, max_lines) ELSE lines

\* [line.strip() for line in output.split("\n") if _is_error_line(line)]
ErrorLines(output) == StripAll(SelectSeq(output, IsErrorLine))

\* --------------------------------------------------------------- client

\* The timeout arguments GodotClient is constructed with: the default, and
\* one above the ceiling.
CtorTimeouts == {DEFAULT_TIMEOUT, 150}

\* The timeout overrides a caller passes: None, below, at and above the ceiling.
Overrides == {None, Some(2), Some(120), Some(135)}

Paths == {"/info", "/game/run", "/console", "/debugger/output"}
\* params / json arguments: None, the empty dict, a non-empty dict.
Args == {"none", "empty", "d1"}

\* What the server or the transport does with one request.
\*   ok       a 2xx response with a JSON body
\*   status   a non-2xx response: raise_for_status raises HTTPStatusError
\*   conn     httpx.ConnectError, ReadError or WriteError
\*   timeout  httpx.TimeoutException
\*   other    any other exception (protocol error, invalid JSON)
Outcomes == {"ok", "status", "conn", "timeout", "other"}

NoBody == [output |-> None, scene |-> None, error |-> FALSE, screenshot |-> FALSE]

IdleCall == [pc |-> "idle", ep |-> "editor", method |-> "GET", path |-> "/info",
             arg |-> "none", override |-> None, t |-> 0,
             attempts |-> <<>>, result |-> [kind |-> "none"], body |-> NoBody]

\* GodotClient.__init__: self.timeout
InitTimeout(timeout) == Min2(timeout, MAX_TIMEOUT)

EffectiveTimeout_Unclamped(e, override) ==
    IF override # None THEN override[1] ELSE selfTimeout[e]

\* GodotClient._effective_timeout
EffectiveTimeout(e, override) ==
    IF override # None THEN Min2(override[1], MAX_TIMEOUT) ELSE selfTimeout[e]

\* GodotClient._get_client: the channel returned; a new one when the stored
\* one is None or closed.
NeedsNewClient(ch) == ch = 0 \/ ch \in closed
GetClient(ch) == IF NeedsNewClient(ch) THEN nextChan ELSE ch

\* What the request sends: get passes params as given, post passes json or {}.
Sent(method, arg) ==
    IF method = "POST" /\ arg = "none" THEN "empty" ELSE arg

\* One attempt: client = self._get_client(); await client.get/post(path, ..., timeout=t).
\* ch is the stored channel as the attempt finds it (0 after a reset).
Attempt(e, ch, method, path, arg, t) ==
    [chan |-> GetClient(ch), created |-> NeedsNewClient(ch), method |-> method, path |-> path,
     sent |-> Sent(method, arg), t |-> t, outcome |-> "pending"]

\* GodotClient.get / post up to the first await: the effective timeout, the
\* channel, the request in flight.
Request(k, e, method, path, arg, override) ==
    LET t == EffectiveTimeout(e, override)
        a == Attempt(e, client[e], method, path, arg, t)
    IN  /\ client' = [client EXCEPT ![e] = a.chan]
        /\ nextChan' = IF a.created THEN nextChan + 1 ELSE nextChan
        /\ sentOnFaulted' = (sentOnFaulted \/ a.chan \in faulted)
        /\ call' = [call EXCEPT ![k] =
                      [pc |-> "wait1", ep |-> e, method |-> method, path |-> path,
                       arg |-> arg, override |-> override, t |-> t,
                       attempts |-> <<a>>, result |-> [kind |-> "none"],
                       body |-> NoBody]]
        /\ UNCHANGED <<ctorTimeout, selfTimeout, closed, faulted>>

\* The JSON bodies a 2xx response to path may carry: a log path answers
\* {"output": text} (or a dict without the key), /info answers the game info,
\* /snapshot and the wait-style paths answer a tree, with a screenshot or
\* not, or {"error": ...}.
Bodies(path) ==
    IF path \in {"/console", "/debugger/output"}
    THEN {NoBody} \cup {[NoBody EXCEPT !.output = Some(t)] : t \in LogTexts}
    ELSE IF path = "/info"
         THEN {NoBody, [NoBody EXCEPT !.scene = Some("Main")]}
         ELSE IF path \in {"/snapshot", "/wait", "/wait_for", "/sequence"}
              THEN {NoBody, [NoBody EXCEPT !.error = TRUE],
                    [NoBody EXCEPT !.screenshot = TRUE]}
              ELSE {NoBody}

SetOutcome(c, i, o) == [c EXCEPT !.attempts[i].outcome = o]

Raise_RetryStatus(c, i, o, res) ==
    IF o = "status" /\ i = 1
    THEN [SetOutcome(c, i, o) EXCEPT !.pc = "wait2",
            !.attempts = Append(@, [c.attempts[i] EXCEPT !.created = FALSE])]
    ELSE [SetOutcome(c, i, o) EXCEPT !.pc = "done", !.result = res]

\* An exception no except clause of get/post handles leaves the call: the
\* attempt's outcome, and what the caller sees raised.
Raise(c, i, o, res) == [SetOutcome(c, i, o) EXCEPT !.pc = "done", !.result = res]

TimeoutFailure(c) ==
    [kind |-> "TimeoutException", method |-> c.method, path |-> c.path, t |-> c.t]

RetrySend_DefaultTimeout(k, c) ==
    LET e == c.ep
        a == Attempt(e, 0, c.method, c.path, c.arg, selfTimeout[e])
    IN  /\ client' = [client EXCEPT ![e] = a.chan]
        /\ nextChan' = nextChan + 1
        /\ sentOnFaulted' = (sentOnFaulted \/ a.chan \in faulted)
        /\ call' = [call EXCEPT ![k] =
                      [c EXCEPT !.pc = "wait2", !.attempts = Append(@, a)]]

\* The rest of the except branch of a connection-level fault, after
\* _reset_client has closed the channel: self._client = None, then
\* client = self._get_client() and the same request again, with the same t.
RetrySend(k, c) ==
    LET e == c.ep
        a == Attempt(e, 0, c.method, c.path, c.arg, c.t)
    IN  /\ client' = [client EXCEPT ![e] = a.chan]
        /\ nextChan' = nextChan + 1
        /\ sentOnFaulted' = (sentOnFaulted \/ a.chan \in faulted)
        /\ call' = [call EXCEPT ![k] =
                      [c EXCEPT !.pc = "wait2", !.attempts = Append(@, a)]]

ResetDone_KeepClient(k, c) ==
    /\ call' = [call EXCEPT ![k] =
                  [c EXCEPT !.pc = "done", !.result = TimeoutFailure(c)]]
    /\ UNCHANGED <<client, nextChan, sentOnFaulted>>

\* The rest of the except branch of a timeout, after _reset_client has closed
\* the channel: self._client = None, then raise TimeoutException(message).
ResetDone(k, c) ==
    /\ client' = [client EXCEPT ![c.ep] = 0]
    /\ call' = [call EXCEPT ![k] =
                  [c EXCEPT !.pc = "done", !.result = TimeoutFailure(c)]]
    /\ UNCHANGED <<nextChan, sentOnFaulted>>

\* The first attempt's await ends.  A connection-level fault or a timeout
\* enters _reset_client, which awaits aclose() when the stored channel is open
\* (httpx marks the channel closed before it suspends).
RecvFirst(k) ==
    LET c == call[k]
        e == c.ep
        open == client[e] # 0 /\ client[e] \notin closed
    IN  /\ c.pc = "wait1"
        /\ UNCHANGED <<ctorTimeout, selfTimeout, liveVars, gateVars, toolVars, textVars, remoteVars>>
        /\ \/ /\ \E b \in Bodies(c.path) :
                    call' = [call EXCEPT ![k] =
                        [SetOutcome(c, 1, "ok") EXCEPT !.pc = "done",
                            !.result = [kind |-> "ok"], !.body = b]]
              /\ UNCHANGED <<client, closed, nextChan, faulted, sentOnFaulted>>
           \/ /\ call' = [call EXCEPT ![k] =
                    Raise(c, 1, "status", [kind |-> "HTTPStatusError"])]
              /\ UNCHANGED <<client, closed, nextChan, faulted, sentOnFaulted>>
           \/ /\ call' = [call EXCEPT ![k] =
                    Raise(c, 1, "other", [kind |-> "OtherError"])]
              /\ UNCHANGED <<client, closed, nextChan, faulted, sentOnFaulted>>
           \/ /\ open => Cardinality(closed) < MaxFaults
              /\ faulted' = faulted \cup {c.attempts[1].chan}
              /\ IF open
                 THEN /\ closed' = closed \cup {client[e]}
                      /\ call' = [call EXCEPT ![k] =
                            [SetOutcome(c, 1, "conn") EXCEPT !.pc = "closing_conn"]]
                      /\ UNCHANGED <<client, nextChan, sentOnFaulted>>
                 ELSE /\ RetrySend(k, SetOutcome(c, 1, "conn"))
                      /\ UNCHANGED closed
           \/ /\ open => Cardinality(closed) < MaxFaults
              /\ UNCHANGED faulted
              /\ IF open
                 THEN /\ closed' = closed \cup {client[e]}
                      /\ call' = [call EXCEPT ![k] =
                            [SetOutcome(c, 1, "timeout") EXCEPT !.pc = "closing_timeout"]]
                      /\ UNCHANGED <<client, nextChan, sentOnFaulted>>
                 ELSE /\ ResetDone(k, SetOutcome(c, 1, "timeout"))
                      /\ UNCHANGED closed

\* await self._client.aclose() returns in the connection-fault branch.
CloseDoneConn(k) ==
    /\ call[k].pc = "closing_conn"
    /\ RetrySend(k, call[k])
    /\ UNCHANGED <<ctorTimeout, selfTimeout, closed, faulted, liveVars, gateVars, toolVars, textVars, remoteVars>>

\* await self._client.aclose() returns in the timeout branch.
CloseDoneTimeout(k) ==
    /\ call[k].pc = "closing_timeout"
    /\ ResetDone(k, call[k])
    /\ UNCHANGED <<ctorTimeout, selfTimeout, closed, faulted, liveVars, gateVars, toolVars, textVars, remoteVars>>

\* The retry's await ends.  It runs inside the except clause, so whatever it
\* raises leaves get/post as it is: no sibling except clause handles it.
RecvRetry(k) ==
    LET c == call[k]
    IN  /\ c.pc = "wait2"
        /\ UNCHANGED <<ctorTimeout, selfTimeout, client, closed, nextChan, sentOnFaulted,
                       liveVars, gateVars, toolVars, textVars, remoteVars>>
        /\ \/ /\ \E b \in Bodies(c.path) :
                    call' = [call EXCEPT ![k] =
                        [SetOutcome(c, 2, "ok") EXCEPT !.pc = "done",
                            !.result = [kind |-> "ok"], !.body = b]]
              /\ UNCHANGED faulted
           \/ /\ call' = [call EXCEPT ![k] =
                    Raise(c, 2, "status", [kind |-> "HTTPStatusError"])]
              /\ UNCHANGED faulted
           \/ /\ call' = [call EXCEPT ![k] =
                    Raise(c, 2, "other", [kind |-> "OtherError"])]
              /\ UNCHANGED faulted
           \/ /\ call' = [call EXCEPT ![k] =
                    Raise(c, 2, "conn", [kind |-> "ConnectError"])]
              /\ faulted' = faulted \cup {c.attempts[2].chan}
           \/ /\ call' = [call EXCEPT ![k] =
                    Raise(c, 2, "timeout", [kind |-> "RawTimeoutException"])]
              /\ UNCHANGED faulted

\* A caller of the tool layer calls client.get(path, params, timeout).
Get(k) ==
    /\ call[k].pc = "idle"
    /\ \E e \in Endpoints, p \in Paths, a \in Args, ov \in Overrides :
            Request(k, e, "GET", p, a, ov)
    /\ UNCHANGED <<liveVars, gateVars, toolVars, textVars, remoteVars>>

\* A caller of the tool layer calls client.post(path, json, timeout).
Post(k) ==
    /\ call[k].pc = "idle"
    /\ \E e \in Endpoints, p \in Paths, a \in Args, ov \in Overrides :
            Request(k, e, "POST", p, a, ov)
    /\ UNCHANGED <<liveVars, gateVars, toolVars, textVars, remoteVars>>

\* get/post has returned or raised; the caller takes the result.
Return(k) ==
    /\ call[k].pc = "done"
    /\ call' = [call EXCEPT ![k] = IdleCall]
    /\ UNCHANGED <<ctorTimeout, selfTimeout, client, closed, nextChan,
                   faulted, sentOnFaulted, liveVars, gateVars, toolVars, textVars, remoteVars>>

\* The two module-level clients, constructed with a timeout of ctors.
InitClient(ctors) ==
    /\ ctorTimeout \in [Endpoints -> ctors]
    /\ selfTimeout = [e \in Endpoints |-> InitTimeout(ctorTimeout[e])]
    /\ client = [e \in Endpoints |-> 0]
    /\ closed = {}
    /\ nextChan = 1
    /\ call = [k \in Tasks |-> IdleCall]
    /\ faulted = {}
    /\ sentOnFaulted = FALSE

\* ------------------------------------------------------------- liveness

(***************************************************************************)
(* What _check_runtime returns is a record: kind tells None ("Ready") from *)
(* the two messages, head is the message's first sentence, lines are the   *)
(* error lines a crash report lists, tail is the text that ends it.        *)
(***************************************************************************)
GAME_NOT_RUNNING_MSG ==
    [kind |-> "NotRunning",
     head |-> "Game is not running. Use godot_run_game() to start it first.",
     lines |-> <<>>, tail |-> ""]
\* _check_runtime returns None
Ready == [kind |-> "Ready", head |-> "", lines |-> <<>>, tail |-> ""]

\* is_available: httpx.AsyncClient(base_url=self.base_url, timeout=2.0)
PROBE_TIMEOUT == 2
\* unique[-10:]
DIAG_KEEP == 10

NoProbe == [path |-> "", t |-> 0, outcome |-> "none", value |-> FALSE]

IdleCheck == [pc |-> "idle", now |-> 0, probes |-> 0, failed |-> FALSE,
              was |-> FALSE, prior |-> {}, priorLast |-> "none",
              afterFail |-> FALSE, probe |-> NoProbe,
              diagFetch |-> "none", diagText |-> EmptyText,
              result |-> [kind |-> "none", head |-> "", lines |-> <<>>, tail |-> ""]]

\* GodotClient.is_available up to its await: a client of its own, with the
\* probe timeout, sends GET /info.  The stored channel is not involved.
ProbeSent == [NoProbe EXCEPT !.path = "/info", !.t = PROBE_TIMEOUT, !.outcome = "pending"]

\* GodotClient.is_available: True when GET /info answered 2xx within the
\* probe timeout, False on any exception.
IsAvailable(outcome) == outcome = "ok"

ProbeRaises_Status(outcome) == outcome = "status"

\* GodotClient.is_available: except Exception catches whatever the probe raised.
ProbeRaises(outcome) == FALSE

CacheFresh_Inclusive(now) == now - last_ok <= CACHE_TTL

\* _check_runtime: now - _runtime_cache["last_ok"] < _CACHE_TTL
CacheFresh(now) == now - last_ok < CACHE_TTL

WasPreviouslyRunning_Always == last_ok >= 0

\* _check_runtime: was_previously_running = _runtime_cache["last_ok"] > 0
WasPreviouslyRunning == last_ok > 0

Invalidated_Stale == last_ok

\* _check_runtime: _runtime_cache["last_ok"] = 0.0
Invalidated == 0

IsDiagLine(line) == Strip(line) # <<>> /\ IsErrorLine(line)

REPAIR_STEPS == "You MUST attempt to fix this. Follow these steps: ..."
NO_DETAILS == "Game crashed or was stopped - no error details found in the log."
ERRORS_FOUND == "Game crashed or was stopped unexpectedly. Errors found in log:"

NoDetailsReport_Bare ==
    [kind |-> "Crash", head |-> NO_DETAILS, lines |-> <<>>, tail |-> ""]

\* if not error_lines: return "... no error details found in the log." + repair_steps
NoDetailsReport ==
    [kind |-> "Crash", head |-> NO_DETAILS, lines |-> <<>>, tail |-> REPAIR_STEPS]

\* The error lines _get_crash_diagnostics collects from a fetched output.
DiagErrorLines(output) ==
    IF output # EmptyText THEN StripAll(SelectSeq(output, IsDiagLine)) ELSE <<>>

KeepLast_First(unique) == SubSeq(unique, 1, Min2(Len(unique), DIAG_KEEP))

\* unique = unique[-10:]
KeepLast(unique) == LastN(unique, DIAG_KEEP)

\* _get_crash_diagnostics after the try block: the report made of the output
\* it obtained (the empty text when the fetch raised).
CrashReport(output) ==
    LET error_lines == DiagErrorLines(output)
    IN  IF error_lines = <<>> THEN NoDetailsReport
        ELSE [kind |-> "Crash", head |-> ERRORS_FOUND,
              lines |-> KeepLast(Unique(error_lines, {})), tail |-> REPAIR_STEPS]

\* log.get("output", "") when editor.get returned, "" when it raised.
DiagOutput(c) ==
    IF c.result.kind = "ok" /\ c.body.output # None THEN c.body.output[1] ELSE EmptyText

\* _get_crash_diagnostics, from the outcome c of its editor.get("/debugger/output").
CrashDiagnostics(c) == CrashReport(DiagOutput(c))

\* _check_runtime up to its first await: the cache answers, or the probe starts.
CheckBegin(k) ==
    /\ chk[k].pc = "idle"
    /\ call[k].pc = "idle"
    /\ LET c == [IdleCheck EXCEPT !.now = clock, !.prior = okStamps,
                                  !.afterFail = (lastReturn = "Unreachable")]
       IN  IF CacheFresh(clock)
           THEN chk' = [chk EXCEPT ![k] = [c EXCEPT !.pc = "done", !.result = Ready]]
           ELSE chk' = [chk EXCEPT ![k] =
                            [c EXCEPT !.pc = "probing", !.probes = 1, !.probe = ProbeSent]]
    /\ UNCHANGED <<clock, last_ok, okStamps, lastProbe, diagRuns, lastReturn>>

\* Some runtime tool calls _check_runtime.
CheckStart(k) ==
    /\ CheckBegin(k)
    /\ UNCHANGED <<clientVars, gateVars, toolVars, textVars, remoteVars>>

\* await runtime.is_available() returns.
ProbeDone(k) ==
    LET c == chk[k]
    IN  /\ c.pc = "probing"
        /\ UNCHANGED <<clock, lastReturn, gateVars, toolVars, textVars, remoteVars>>
        /\ \E o \in Outcomes :
            LET p == [c.probe EXCEPT !.outcome = o, !.value = IsAvailable(o)]
            IN
            IF ProbeRaises(o)
            THEN /\ chk' = [chk EXCEPT ![k] = [c EXCEPT !.pc = "raised", !.probe = p]]
                 /\ UNCHANGED <<last_ok, okStamps, lastProbe, diagRuns, clientVars>>
            ELSE IF IsAvailable(o)
            THEN /\ last_ok' = c.now
                 /\ okStamps' = okStamps \cup {c.now}
                 /\ lastProbe' = "ok"
                 /\ diagRuns' = 0
                 /\ chk' = [chk EXCEPT ![k] =
                        [c EXCEPT !.pc = "done", !.result = Ready, !.probe = p]]
                 /\ UNCHANGED clientVars
            ELSE /\ last_ok' = Invalidated
                 /\ lastProbe' = "fail"
                 /\ UNCHANGED okStamps
                 /\ IF WasPreviouslyRunning
                    THEN /\ Request(k, "editor", "GET", "/debugger/output", "none", None)
                         /\ diagRuns' = diagRuns + 1
                         /\ chk' = [chk EXCEPT ![k] =
                               [c EXCEPT !.pc = "diag", !.failed = TRUE, !.was = TRUE,
                                         !.priorLast = lastProbe, !.probe = p]]
                    ELSE /\ chk' = [chk EXCEPT ![k] =
                               [c EXCEPT !.pc = "done", !.failed = TRUE, !.was = FALSE,
                                         !.priorLast = lastProbe, !.probe = p,
                                         !.result = GAME_NOT_RUNNING_MSG]]
                         /\ UNCHANGED <<diagRuns, clientVars>>

\* _get_crash_diagnostics: its editor.get has returned or raised.
DiagDone(k) ==
    /\ chk[k].pc = "diag"
    /\ call[k].pc = "done"
    /\ chk' = [chk EXCEPT ![k] =
                  [@ EXCEPT !.pc = "done", !.result = CrashDiagnostics(call[k]),
                            !.diagFetch = call[k].result.kind,
                            !.diagText = DiagOutput(call[k])]]
    /\ call' = [call EXCEPT ![k] = IdleCall]
    /\ UNCHANGED <<ctorTimeout, selfTimeout, client, closed, nextChan,
                   faulted, sentOnFaulted>>
    /\ UNCHANGED <<clock, last_ok, okStamps, lastProbe, diagRuns, lastReturn, gateVars, toolVars, textVars, remoteVars>>

\* _check_runtime returns None or a message.
CheckEnd(k) ==
    /\ chk[k].pc = "done"
    /\ lastReturn' = IF chk[k].result.kind = "Ready" THEN "Ready" ELSE "Unreachable"
    /\ chk' = [chk EXCEPT ![k] = IdleCheck]
    /\ UNCHANGED <<clock, last_ok, okStamps, lastProbe, diagRuns>>

\* _check_runtime has returned; the tool goes on (Ready) or returns the message.
CheckReturn(k) ==
    /\ CheckEnd(k)
    /\ UNCHANGED <<clientVars, gateVars, toolVars, textVars, remoteVars>>

\* The monotonic clock advances.
Tick ==
    /\ clock < MaxClock
    /\ clock' = clock + 1
    /\ UNCHANGED <<last_ok, chk, okStamps, lastProbe, diagRuns, lastReturn>>
    /\ UNCHANGED <<clientVars, gateVars, toolVars, textVars, remoteVars>>

\* The caller lets the cache expire between two tool calls.
Elapse ==
    /\ \A k \in Tasks : tool[k].pc = "idle"
    /\ clock + CACHE_TTL <= MaxClock
    /\ clock' = clock + CACHE_TTL
    /\ UNCHANGED <<last_ok, chk, okStamps, lastProbe, diagRuns, lastReturn>>
    /\ UNCHANGED <<clientVars, gateVars, toolVars, textVars, remoteVars>>

\* The clock reads a positive number of seconds, one of clocks, when the
\* server starts.
InitLive(clocks) ==
    /\ clock \in clocks
    /\ last_ok = 0
    /\ chk = [k \in Tasks |-> IdleCheck]
    /\ okStamps = {}
    /\ lastProbe = "none"
    /\ diagRuns = 0
    /\ lastReturn = "none"

\* ------------------------------------------------------- texts as inputs

(***************************************************************************)
(* The classifier and the diagnostics are functions of a log text.  The    *)
(* texts they are applied to are all the texts of at most MaxLines lines   *)
(* over the sample lines below, and one long text with more distinct error *)
(* lines than a crash report keeps.                                        *)
(*   "WARNING: x"                                                          *)
(*   "Node not found: x"                 fatal, no prefix, no file         *)
(*   "Parse Error: x res://a res://b:42 res://a:0"                         *)
(*   "SCRIPT ERROR: x res://a:0"                                           *)
(*   "x SCRIPT ERROR: x"                 the prefix is not leading         *)
(***************************************************************************)
LineWarning == <<"WARNING", ":", " ", "x">>
LineFatalNoFile == <<"Node", " ", "not", " ", "found", ":", " ", "x">>
LineTwoTokens ==
    <<"Parse", " ", "Error", ":", " ", "x", " ", "res://", "a", " ",
      "res://", "b", ":", "4", "2", " ", "res://", "a", ":", "0">>
LineZero == <<"SCRIPT", " ", "ERROR", ":", " ", "x", " ", "res://", "a", ":", "0">>

LineInnerPrefix == <<"x", " ", "SCRIPT", " ", "ERROR", ":", " ", "x">>

SampleLines ==
    { LinePlain, LineAdvisory, LineFatal, LineFatalPadded, LineBlank,
      LineWarning, LineFatalNoFile, LineTwoTokens, LineZero, LineInnerPrefix }

\* "ERROR: 0" ... "ERROR: 9", "ERROR: x", " ERROR: 0", "x", "exception":
\* twelve distinct error lines, the first of them once more at the end.
LongText ==
    [n \in 1..10 |-> <<"ERROR", ":", " ", ToString(n - 1)>>]
        \o << LineAdvisory, <<" ", "ERROR", ":", " ", "0">>, LinePlain, <<"exception">> >>

TextInputs ==
    UNION {[1..n -> SampleLines] : n \in 1..MaxLines} \cup {EmptyText, LongText}

NoReport == [kind |-> "none", head |-> "", lines |-> <<>>, tail |-> ""]

\* The text, the function applied to it ("none": not yet), what it returned,
\* and the calls made so far.
IdleText(t) == [input |-> t, op |-> "none", records |-> <<>>, report |-> NoReport,
                max_lines |-> 0, tail |-> EmptyText, calls |-> 0]

\* The values of max_lines _truncate_log_tail is called with: none, few, the default.
TailSizes == {0, 1, 2, MAX_LOG_LINES}

\* _collect_startup_errors(output) is called.
Classify ==
    /\ txt.op = "none"
    /\ txt' = [txt EXCEPT !.op = "classify", !.calls = @ + 1,
                          !.records = CollectStartupErrors(txt.input)]
    /\ UNCHANGED <<clientVars, liveVars, gateVars, toolVars, remoteVars>>

\* The part of _get_crash_diagnostics that follows the fetch is run on the text.
Diagnose ==
    /\ txt.op = "none"
    /\ txt' = [txt EXCEPT !.op = "diagnose", !.calls = @ + 1,
                          !.report = CrashReport(txt.input)]
    /\ UNCHANGED <<clientVars, liveVars, gateVars, toolVars, remoteVars>>

\* _truncate_log_tail(output, max_lines) is called.
Truncate ==
    /\ txt.op = "none"
    /\ \E n \in TailSizes :
            txt' = [txt EXCEPT !.op = "truncate", !.calls = @ + 1, !.max_lines = n,
                               !.tail = TruncateLogTail(txt.input, n)]
    /\ UNCHANGED <<clientVars, liveVars, gateVars, toolVars, remoteVars>>

\* The function is called once more, on the same text or on another one.
NextText ==
    /\ txt.op # "none"
    /\ txt.calls < MaxCalls
    /\ \E t \in {txt.input, <<LineFatal>>} :
            txt' = [IdleText(t) EXCEPT !.calls = txt.calls]
    /\ UNCHANGED <<clientVars, liveVars, gateVars, toolVars, remoteVars>>

InitText(texts) == txt \in {IdleText(t) : t \in texts}

\* ------------------------------------------------------ the running game

(***************************************************************************)
(* The runtime service keeps the event accumulator and the snapshot        *)
(* baseline; the bridge reaches them through GET /events and               *)
(* GET /snapshot/diff.  An event is its id; a snapshot gives every node    *)
(* path the value of its one property, or "absent".                        *)
(***************************************************************************)
MaxEvents == 3
MaxDrains == 3
MaxDiffs == 2

NodePaths == {"Player", "Enemy"}
NodeValues == {"absent", "v1", "v2"}
Snapshots == [NodePaths -> NodeValues]
StartSnapshot == [p \in NodePaths |-> "v1"]

RemotePaths == {"/events", "/snapshot/diff"}

FreshId_FromStore(r) == Len(r.events) + 1

\* record: the id of the next event.
FreshId(r) == r.last_id + 1

\* record(event): appends with a freshly assigned id.
AccRecord(r) ==
    [r EXCEPT !.events = Append(@, FreshId(r)), !.last_id = FreshId(r),
              !.log = Append(@, [op |-> "record", id |-> FreshId(r), peek |-> FALSE,
                                 out |-> <<>>])]

AccDrain_KeepAll(r, peek) ==
    [r EXCEPT !.log = Append(@, [op |-> "drain", id |-> 0, peek |-> peek,
                                 out |-> r.events])]

\* drain(peek): returns the held events; clears the store unless peek.
AccDrain(r, peek) ==
    [r EXCEPT !.events = IF peek THEN @ ELSE <<>>,
              !.log = Append(@, [op |-> "drain", id |-> 0, peek |-> peek,
                                 out |-> r.events])]

EmptyDiff == [nodes_added |-> {}, nodes_removed |-> {}, nodes_changed |-> {}]

Present(snap) == {p \in NodePaths : snap[p] # "absent"}

Delta_ChangedAsRemoved(old, new) ==
    [nodes_added |-> Present(new) \ Present(old),
     nodes_removed |-> {p \in Present(old) : old[p] # new[p]},
     nodes_changed |-> {}]

\* The delta of new against the snapshot old.
Delta(old, new) ==
    [nodes_added |-> Present(new) \ Present(old),
     nodes_removed |-> Present(old) \ Present(new),
     nodes_changed |-> {[path |-> p, old |-> old[p], new |-> new[p]] :
                            p \in {q \in Present(old) \cap Present(new) : old[q] # new[q]}}]

SnapshotDiff_FromNothing(baseline, new) ==
    IF baseline = None
    THEN [EmptyDiff EXCEPT !.nodes_added = Present(new)]
    ELSE Delta(baseline[1], new)

\* diff(new_snapshot): empty without a baseline, else the delta against it.
SnapshotDiff(baseline, new) ==
    IF baseline = None THEN EmptyDiff ELSE Delta(baseline[1], new)

\* history: the latest two of calls.
LatestTwo(calls) ==
    IF Len(calls) > 2 THEN SubSeq(calls, Len(calls) - 1, Len(calls)) ELSE calls

DiffCall_FixedOrigin(r, new) ==
    [r EXCEPT !.baseline = IF @ = None THEN Some(new) ELSE @,
              !.ndiffs = @ + 1,
              !.diffs = LatestTwo(Append(@, [base |-> r.baseline, snap |-> new,
                                             out |-> SnapshotDiff(r.baseline, new)]))]

\* diff(new_snapshot) as a whole: the diff, then the baseline replaced.
\* history: diffs holds the latest two calls, ndiffs counts them all.
DiffCall(r, new) ==
    [r EXCEPT !.baseline = Some(new),
              !.ndiffs = @ + 1,
              !.diffs = LatestTwo(Append(@, [base |-> r.baseline, snap |-> new,
                                             out |-> SnapshotDiff(r.baseline, new)]))]

NoReply == [events |-> <<>>, diff |-> EmptyDiff]

\* The query of GET /events: peek is set by peek=true.
PeekParam(sent) == sent = "peek"

\* The snapshots the runtime may take of its scene tree when it handles a
\* request to path: any, since the tree changes as the game runs.
SnapshotsAt(path) == IF path = "/snapshot/diff" THEN Snapshots ELSE {StartSnapshot}

\* The runtime handles the request of task k, its scene tree being snap: the
\* reply it will send.
Handle(r, k, n, path, sent, snap) ==
    IF path = "/events"
    THEN [AccDrain(r, PeekParam(sent)) EXCEPT !.served[k] = n,
            !.reply[k] = [NoReply EXCEPT !.events = r.events]]
    ELSE IF path = "/snapshot/diff"
    THEN [DiffCall(r, snap) EXCEPT !.served[k] = n,
            !.reply[k] = [NoReply EXCEPT !.diff = SnapshotDiff(r.baseline, snap)]]
    ELSE r

\* The runtime was found unreachable: the target process has ended, and the
\* baseline is reset to empty.
RuntimeEnded(r) == [r EXCEPT !.baseline = None]

\* Something happens in the game: an event is recorded.
RecordEvent ==
    /\ remote.last_id < MaxEvents
    /\ remote' = AccRecord(remote)
    /\ UNCHANGED <<clientVars, liveVars, gateVars, toolVars, textVars>>

\* The runtime handles a request that is in flight; each attempt is handled
\* at most once, at the latest when its answer arrives.
Serve(k) ==
    LET c == call[k]
        n == Len(c.attempts)
    IN  /\ c.pc \in {"wait1", "wait2"}
        /\ c.ep = "runtime"
        /\ c.path \in RemotePaths
        /\ remote.served[k] < n
        /\ \E snap \in SnapshotsAt(c.path) :
                remote' = Handle(remote, k, n, c.path, c.attempts[n].sent, snap)
        /\ UNCHANGED <<clientVars, liveVars, gateVars, toolVars, textVars>>

\* The answer task k receives to an answered request.
Answered(r, k, c, snap) ==
    IF r.served[k] = Len(c.attempts) THEN r
    ELSE Handle(r, k, Len(c.attempts), c.path, c.attempts[Len(c.attempts)].sent, snap)

\* The reply has been taken (or the request has raised).
Taken(r, k) == [r EXCEPT !.served[k] = 0, !.reply[k] = NoReply]

InitRemote ==
    remote = [events |-> <<>>, last_id |-> 0, log |-> <<>>,
              baseline |-> None, diffs |-> <<>>, ndiffs |-> 0,
              served |-> [k \in Tasks |-> 0], reply |-> [k \in Tasks |-> NoReply]]

\* -------------------------------------------------------- runtime tools

(***************************************************************************)
(* The runtime tools, named game_...  Each of them starts with             *)
(*     err = await _check_runtime()                                        *)
(*     if err: return [err]      (or {"error": err})                       *)
(* and then sends its request through the runtime client.  Three of them   *)
(* are modelled: game_info and game_click, which return what the request   *)
(* answered, and game_snapshot, which goes on to push the screenshot to    *)
(* the editor and to fetch the director notes, both best effort.           *)
(***************************************************************************)
RuntimeTools ==
    { [name |-> "game_snapshot", method |-> "GET", path |-> "/snapshot", arg |-> "d1",
       override |-> None, duration |-> 0, peek |-> FALSE],
      [name |-> "game_info", method |-> "GET", path |-> "/info", arg |-> "none",
       override |-> None, duration |-> 0, peek |-> FALSE],
      [name |-> "game_click", method |-> "POST", path |-> "/click", arg |-> "d1",
       override |-> None, duration |-> 0, peek |-> FALSE] }

\* The headroom the wait-style tools add to the duration they ask for.
HEADROOM == 15

\* max(30.0, ...) in game_input_sequence.
SEQUENCE_FLOOR == 30

\* The durations asked for: seconds, timeout, and the sum of the steps'
\* wait and duration.
WaitSeconds == {1, 110}
WaitForTimeouts == {10}
StepTotals == {0, 110}

Max2(a, b) == IF a >= b THEN a ELSE b

\* http_timeout = seconds + 15.0   (game_wait, game_wait_for)
WaitTimeout(seconds) == seconds + HEADROOM

\* http_timeout = max(30.0, total_duration + 15.0)
SequenceTimeout(total_duration) == Max2(SEQUENCE_FLOOR, total_duration + HEADROOM)

\* The wait-style tools: each posts to the runtime with timeout=http_timeout.
WaitTools ==
    { [name |-> "game_wait", method |-> "POST", path |-> "/wait", arg |-> "d1",
       override |-> Some(WaitTimeout(d)), duration |-> d, peek |-> FALSE]
        : d \in WaitSeconds }
    \cup
    { [name |-> "game_wait_for", method |-> "POST", path |-> "/wait_for", arg |-> "d1",
       override |-> Some(WaitTimeout(d)), duration |-> d, peek |-> FALSE]
        : d \in WaitForTimeouts }
    \cup
    { [name |-> "game_input_sequence", method |-> "POST", path |-> "/sequence",
       arg |-> "d1", override |-> Some(SequenceTimeout(d)), duration |-> d,
       peek |-> FALSE]
        : d \in StepTotals }

WaitToolNames == {"game_wait", "game_wait_for", "game_input_sequence"}

EventsParams_NoPeek(peek) == "empty"

EventsParams_AlwaysPeek(peek) == "peek"

\* params = {}; if peek: params["peek"] = "true"
EventsParams(peek) == IF peek THEN "peek" ELSE "empty"

\* game_events(peek)
EventTools ==
    { [name |-> "game_events", method |-> "GET", path |-> "/events",
       arg |-> EventsParams(p), override |-> None, duration |-> 0, peek |-> p]
        : p \in BOOLEAN }

\* game_snapshot_diff(depth)
DiffTools ==
    { [name |-> "game_snapshot_diff", method |-> "GET", path |-> "/snapshot/diff",
       arg |-> "d1", override |-> None, duration |-> 0, peek |-> FALSE] }

\* The timeout of _push_vision and _fetch_director_notes.
SIDE_TIMEOUT == 2

NoToolResult == [kind |-> "none", err |-> Ready, body |-> NoBody]

IdleTool == [pc |-> "idle", name |-> "", method |-> "GET", path |-> "", arg |-> "none",
             override |-> None, duration |-> 0, peek |-> FALSE,
             checked |-> "none", reqs |-> 0, result |-> NoToolResult,
             reply |-> NoReply, description |-> <<>>]

ToolProceeds_Always(err) == TRUE

\* if err: return ...   (None goes on; a message is returned)
ToolProceeds(err) == err = Ready

\* The tool's return value, once its requests have ended.
ToolReturned(t, kind, body) ==
    [t EXCEPT !.pc = "returned", !.result = [kind |-> kind, err |-> Ready, body |-> body]]

\* result["_description"] of game_events and of game_snapshot_diff: the counts
\* the text is made of.
Description(t, reply) ==
    IF t.name = "game_events"
    THEN <<Len(reply.events), IF t.peek THEN " (peek)" ELSE "">>
    ELSE IF t.name = "game_snapshot_diff"
    THEN <<Cardinality(reply.diff.nodes_added), Cardinality(reply.diff.nodes_removed),
           Cardinality(reply.diff.nodes_changed)>>
    ELSE <<>>

\* One of tools is called; it runs up to the first await of _check_runtime.
ToolBegin(k, tools) ==
    /\ tool[k].pc = "idle"
    /\ \E t \in tools :
            tool' = [tool EXCEPT ![k] =
                        [IdleTool EXCEPT !.pc = "check", !.name = t.name,
                            !.method = t.method, !.path = t.path, !.arg = t.arg,
                            !.override = t.override, !.duration = t.duration,
                            !.peek = t.peek]]
    /\ CheckBegin(k)
    /\ UNCHANGED <<clientVars, gateVars, textVars, remoteVars>>

\* game_snapshot, game_info or game_click is called.
ToolCall(k) == ToolBegin(k, RuntimeTools)

\* game_wait, game_wait_for or game_input_sequence is called.
WaitCall(k) == ToolBegin(k, WaitTools)

\* game_events is called.
EventsCall(k) ==
    /\ Cardinality({i \in 1..Len(remote.log) : remote.log[i].op = "drain"}) < MaxDrains
    /\ ToolBegin(k, EventTools)

\* game_snapshot_diff is called.
SnapshotDiffCall(k) ==
    /\ remote.ndiffs < MaxDiffs
    /\ ToolBegin(k, DiffTools)

\* _check_runtime has returned: the message is the tool's result, or the
\* tool sends its request to the runtime.  A runtime found unreachable has
\* ended, and its snapshot baseline with it.
ToolChecked(k) ==
    LET t == tool[k]
        err == chk[k].result
    IN  /\ t.pc = "check"
        /\ CheckEnd(k)
        /\ IF ToolProceeds(err)
           THEN /\ tool' = [tool EXCEPT ![k] =
                        [t EXCEPT !.pc = "request", !.checked = err.kind, !.reqs = @ + 1]]
                /\ Request(k, "runtime", t.method, t.path, t.arg, t.override)
                /\ UNCHANGED remote
           ELSE /\ tool' = [tool EXCEPT ![k] =
                        [t EXCEPT !.pc = "returned", !.checked = err.kind,
                            !.result = [kind |-> "message", err |-> err, body |-> NoBody]]]
                /\ remote' = RuntimeEnded(remote)
                /\ UNCHANGED clientVars
        /\ UNCHANGED <<gateVars, textVars>>

\* The tool's runtime request has returned or raised; nothing catches what it
\* raises.  The tool returns the error of the answer, or pushes the
\* screenshot, or (game_snapshot) fetches the director notes, or returns the
\* answer, with its _description for game_events and game_snapshot_diff.
ToolReplied(k) ==
    /\ tool[k].pc = "request"
    /\ call[k].pc = "done"
    /\ UNCHANGED <<liveVars, gateVars, textVars>>
    /\ \E snap \in SnapshotsAt(tool[k].path) :
        LET t == tool[k]
            c == call[k]
            r == IF c.result.kind = "ok" /\ t.path \in RemotePaths
                 THEN Answered(remote, k, c, snap) ELSE remote
        IN  /\ remote' = Taken(r, k)
            /\ IF c.result.kind # "ok"
               THEN /\ tool' = [tool EXCEPT ![k] =
                            [t EXCEPT !.pc = "raised",
                                !.result = [kind |-> c.result.kind, err |-> Ready,
                                            body |-> NoBody]]]
                    /\ call' = [call EXCEPT ![k] = IdleCall]
                    /\ UNCHANGED <<ctorTimeout, selfTimeout, client, closed, nextChan,
                                   faulted, sentOnFaulted>>
               ELSE IF c.body.error
               THEN /\ tool' = [tool EXCEPT ![k] = ToolReturned(t, "error", c.body)]
                    /\ call' = [call EXCEPT ![k] = IdleCall]
                    /\ UNCHANGED <<ctorTimeout, selfTimeout, client, closed, nextChan,
                                   faulted, sentOnFaulted>>
               ELSE IF c.body.screenshot
               THEN /\ tool' = [tool EXCEPT ![k] =
                            [t EXCEPT !.pc = "vision", !.result.body = c.body]]
                    /\ Request(k, "editor", "POST", "/agent/vision", "d1",
                               Some(SIDE_TIMEOUT))
               ELSE IF t.name = "game_snapshot"
               THEN /\ tool' = [tool EXCEPT ![k] =
                            [t EXCEPT !.pc = "director", !.result.body = c.body]]
                    /\ Request(k, "editor", "GET", "/agent/director", "none",
                               Some(SIDE_TIMEOUT))
               ELSE /\ tool' = [tool EXCEPT ![k] =
                            [ToolReturned(t, "data", c.body) EXCEPT
                                !.reply = r.reply[k],
                                !.description = Description(t, r.reply[k])]]
                    /\ call' = [call EXCEPT ![k] = IdleCall]
                    /\ UNCHANGED <<ctorTimeout, selfTimeout, client, closed, nextChan,
                                   faulted, sentOnFaulted>>

\* _push_vision has ended (whatever its post did): game_snapshot goes on to
\* _fetch_director_notes, a wait-style tool returns.
ToolVisionDone(k) ==
    /\ tool[k].pc = "vision"
    /\ call[k].pc = "done"
    /\ IF tool[k].name = "game_snapshot"
       THEN /\ tool' = [tool EXCEPT ![k] = [@ EXCEPT !.pc = "director"]]
            /\ Request(k, "editor", "GET", "/agent/director", "none", Some(SIDE_TIMEOUT))
       ELSE /\ tool' = [tool EXCEPT ![k] = ToolReturned(@, "data", @.result.body)]
            /\ call' = [call EXCEPT ![k] = IdleCall]
            /\ UNCHANGED <<ctorTimeout, selfTimeout, client, closed, nextChan,
                           faulted, sentOnFaulted>>
    /\ UNCHANGED <<liveVars, gateVars, textVars, remoteVars>>

\* _fetch_director_notes has ended (whatever its get did); game_snapshot returns.
ToolDirectorDone(k) ==
    /\ tool[k].pc = "director"
    /\ call[k].pc = "done"
    /\ tool' = [tool EXCEPT ![k] = ToolReturned(@, "data", @.result.body)]
    /\ call' = [call EXCEPT ![k] = IdleCall]
    /\ UNCHANGED <<ctorTimeout, selfTimeout, client, closed, nextChan,
                   faulted, sentOnFaulted, liveVars, gateVars, textVars, remoteVars>>

\* The caller has the tool's result (or its exception).
ToolEnd(k) ==
    /\ tool[k].pc \in {"returned", "raised"}
    /\ tool' = [tool EXCEPT ![k] = IdleTool]
    /\ UNCHANGED <<clientVars, liveVars, gateVars, textVars, remoteVars>>

InitTool == tool = [k \in Tasks |-> IdleTool]

\* ---------------------------------------------------------- launch gate

\* for i in range(60)
POLL_ITERATIONS == 60

\* The task godot_run_game runs in.
GateTask == 1

Scenes == {"", "res://level.tscn"}

\* The keys of the returned dict; _description is the sequence of the pieces
\* its text is made of.
NoResult == [ok |-> FALSE, running |-> FALSE, error_type |-> None,
             startup_errors |-> None, log_tail |-> None, error_lines |-> None,
             game_info |-> None, description |-> <<>>]

IdleGate == [pc |-> "idle", scene |-> "", strict |-> FALSE, i |-> 0,
             info |-> NoBody, console_output |-> EmptyText,
             debugger_output |-> EmptyText, result |-> NoResult,
             raised |-> "none",
             launches |-> 0, probedOk |-> FALSE, settled |-> FALSE,
             consoleGot |-> None, debuggerGot |-> None]

\* console.get("output", "") after a fetch inside try/except Exception: pass.
FetchedOutput(c) ==
    IF c.result.kind = "ok" /\ c.body.output # None THEN c.body.output[1] ELSE EmptyText

\* history: the text a fetch brought (None: the fetch raised).
Got(c) == IF c.result.kind = "ok" THEN Some(FetchedOutput(c)) ELSE None

CombinedOutput_ConsoleOnly(console_output, debugger_output) ==
    StripText(console_output)

\* (console_output + "\n" + debugger_output).strip()
CombinedOutput(console_output, debugger_output) ==
    StripText(console_output \o debugger_output)

\* info.get("current_scene", scene or "main scene")
SceneName(scene, info) ==
    IF info.scene # None THEN info.scene[1]
    ELSE IF scene # "" THEN scene ELSE "main scene"

\* The success response.
Succeeded(scene, info, console_output) ==
    [NoResult EXCEPT !.ok = TRUE, !.running = TRUE, !.game_info = Some(info),
        !.description = <<"Game started - ", SceneName(scene, info)>>,
        !.error_lines = IF console_output # EmptyText /\ ErrorLines(console_output) # <<>>
                        THEN Some(ErrorLines(console_output)) ELSE None]

GateVerdict_SkipStrict(scene, strict, info, console_output, debugger_output) ==
    Succeeded(scene, info, console_output)

\* godot_run_game after the probe succeeded and the three fetches ended.
GateVerdict(scene, strict, info, console_output, debugger_output) ==
    LET combined_output == CombinedOutput(console_output, debugger_output)
        startup_errors == CollectStartupErrors(combined_output)
    IN  IF strict /\ startup_errors # <<>>
        THEN [NoResult EXCEPT !.ok = FALSE, !.running = TRUE,
                !.error_type = Some("startup_runtime_error"),
                !.startup_errors = Some(startup_errors),
                !.log_tail = Some(TruncateLogTail(combined_output, MAX_LOG_LINES)),
                !.description =
                    <<"Game started but has ", ToString(Len(startup_errors)),
                      " fatal startup error(s) - read the errors below, fix the code, stop, save, and relaunch">>]
        ELSE Succeeded(scene, info, console_output)

ParseAll(lines) == [n \in 1..Len(lines) |-> ParseErrorLine(lines[n])]

SynthesizedErrors_None(found, debugger_output) == found

\* if not startup_errors: startup_errors = [_parse_error_line(l) for l in error_lines]
SynthesizedErrors(found, debugger_output) ==
    IF found = <<>> THEN ParseAll(ErrorLines(debugger_output)) ELSE found

\* godot_run_game after the poll loop ran out and the debugger fetch ended.
GateUnreachable(strict, debugger_output) ==
    IF strict
    THEN LET startup_errors ==
                SynthesizedErrors(CollectStartupErrors(debugger_output), debugger_output)
         IN  [NoResult EXCEPT !.ok = FALSE, !.running = FALSE,
                !.error_type = Some("startup_runtime_error"),
                !.startup_errors = Some(startup_errors),
                !.log_tail = Some(IF debugger_output # EmptyText
                                  THEN TruncateLogTail(debugger_output, MAX_LOG_LINES)
                                  ELSE EmptyText),
                !.description =
                    <<"Game failed to start - ", ToString(Len(startup_errors)),
                      " error(s) found. Read the errors, fix the code, save, and relaunch.">>]
    ELSE [NoResult EXCEPT !.ok = FALSE, !.running = FALSE,
            !.description =
                <<"Game failed to start - call godot_get_debugger_output() to see errors, fix, and relaunch">>,
            !.error_lines = IF debugger_output # EmptyText
                               /\ ErrorLines(debugger_output) # <<>>
                            THEN Some(ErrorLines(debugger_output)) ELSE None]

LoopContinues_Unbounded(i) == TRUE

\* for i in range(60): another iteration follows iteration i.
LoopContinues(i) == i + 1 < POLL_ITERATIONS

\* godot_run_game(scene, strict) up to its first await: editor.post("/game/run", body).
GateLaunch ==
    /\ gate.pc = "idle"
    /\ call[GateTask].pc = "idle"
    /\ \E scene \in Scenes, strict \in BOOLEAN :
        /\ gate' = [IdleGate EXCEPT !.pc = "launch", !.scene = scene,
                        !.strict = strict, !.launches = 1]
        /\ Request(GateTask, "editor", "POST", "/game/run",
                   IF scene # "" THEN "d1" ELSE "empty", None)
    /\ UNCHANGED <<liveVars, toolVars, textVars, remoteVars>>

GateLaunched_NoSettle ==
    LET c == call[GateTask]
    IN  /\ gate.pc = "launch"
        /\ c.pc = "done"
        /\ gate' = IF c.result.kind = "ok"
                   THEN [gate EXCEPT !.pc = "probe"]
                   ELSE [gate EXCEPT !.pc = "raised", !.raised = c.result.kind]
        /\ call' = [call EXCEPT ![GateTask] = IdleCall]
        /\ UNCHANGED <<ctorTimeout, selfTimeout, client, closed, nextChan,
                       faulted, sentOnFaulted, liveVars, toolVars, textVars, remoteVars>>

\* editor.post has returned or raised; nothing catches what it raises.
GateLaunched ==
    LET c == call[GateTask]
    IN  /\ gate.pc = "launch"
        /\ c.pc = "done"
        /\ gate' = IF c.result.kind = "ok"
                   THEN [gate EXCEPT !.pc = "settle"]
                   ELSE [gate EXCEPT !.pc = "raised", !.raised = c.result.kind]
        /\ call' = [call EXCEPT ![GateTask] = IdleCall]
        /\ UNCHANGED <<ctorTimeout, selfTimeout, client, closed, nextChan,
                       faulted, sentOnFaulted, liveVars, toolVars, textVars, remoteVars>>

\* await asyncio.sleep(1.5) returns; the loop starts with asyncio.sleep(0.25).
GateSettled ==
    /\ gate.pc = "settle"
    /\ gate' = [gate EXCEPT !.pc = "sleep", !.i = 0, !.settled = TRUE]
    /\ UNCHANGED <<clientVars, liveVars, toolVars, textVars, remoteVars>>

\* await asyncio.sleep(0.25) returns; runtime.is_available() starts.
GateSlept ==
    /\ gate.pc = "sleep"
    /\ gate' = [gate EXCEPT !.pc = "probe"]
    /\ UNCHANGED <<clientVars, liveVars, toolVars, textVars, remoteVars>>

\* await runtime.is_available() returns: runtime.get("/info") on True; on
\* False the next iteration or, after the last one, the editor-side fetch.
\* Iteration i has issued i + 1 probes.  The loop index is dead on the path
\* that returns from inside the loop, and is cleared there.
GateProbed ==
    /\ gate.pc = "probe"
    /\ UNCHANGED <<liveVars, toolVars, textVars, remoteVars>>
    /\ \E o \in Outcomes :
        IF IsAvailable(o)
        THEN /\ gate' = [gate EXCEPT !.pc = "info", !.probedOk = TRUE, !.i = 0]
             /\ Request(GateTask, "runtime", "GET", "/info", "none", None)
        ELSE IF LoopContinues(gate.i)
             THEN /\ gate' = [gate EXCEPT !.pc = "sleep", !.i = @ + 1]
                  /\ UNCHANGED clientVars
             ELSE /\ gate' = [gate EXCEPT !.pc = "fallback"]
                  /\ Request(GateTask, "editor", "GET", "/debugger/output", "none", None)

\* runtime.get("/info") has returned or raised; nothing catches what it
\* raises.  Then runtime.get("/console").
GateInfo ==
    LET c == call[GateTask]
    IN  /\ gate.pc = "info"
        /\ c.pc = "done"
        /\ UNCHANGED <<liveVars, toolVars, textVars, remoteVars>>
        /\ IF c.result.kind = "ok"
           THEN /\ gate' = [gate EXCEPT !.pc = "console", !.info = c.body]
                /\ Request(GateTask, "runtime", "GET", "/console", "none", None)
           ELSE /\ gate' = [gate EXCEPT !.pc = "raised", !.raised = c.result.kind]
                /\ call' = [call EXCEPT ![GateTask] = IdleCall]
                /\ UNCHANGED <<ctorTimeout, selfTimeout, client, closed, nextChan,
                               faulted, sentOnFaulted>>

GateConsole_Abort ==
    LET c == call[GateTask]
    IN  /\ gate.pc = "console"
        /\ c.pc = "done"
        /\ IF c.result.kind = "ok"
           THEN /\ gate' = [gate EXCEPT !.pc = "debugger",
                                !.console_output = FetchedOutput(c), !.consoleGot = Got(c)]
                /\ Request(GateTask, "editor", "GET", "/debugger/output", "none", None)
           ELSE /\ gate' = [gate EXCEPT !.pc = "returned", !.consoleGot = Got(c),
                                !.result = GateVerdict(gate.scene, gate.strict, gate.info,
                                                       EmptyText, EmptyText)]
                /\ call' = [call EXCEPT ![GateTask] = IdleCall]
                /\ UNCHANGED <<ctorTimeout, selfTimeout, client, closed, nextChan,
                               faulted, sentOnFaulted>>
        /\ UNCHANGED <<liveVars, toolVars, textVars, remoteVars>>

\* runtime.get("/console") has returned or raised (best effort).  Then
\* editor.get("/debugger/output").
GateConsole ==
    LET c == call[GateTask]
    IN  /\ gate.pc = "console"
        /\ c.pc = "done"
        /\ gate' = [gate EXCEPT !.pc = "debugger",
                        !.console_output = FetchedOutput(c), !.consoleGot = Got(c)]
        /\ Request(GateTask, "editor", "GET", "/debugger/output", "none", None)
        /\ UNCHANGED <<liveVars, toolVars, textVars, remoteVars>>

\* editor.get("/debugger/output") has returned or raised (best effort); the
\* gate returns its verdict.
GateDebugger ==
    LET c == call[GateTask]
    IN  /\ gate.pc = "debugger"
        /\ c.pc = "done"
        /\ gate' = [gate EXCEPT !.pc = "returned",
                        !.debugger_output = FetchedOutput(c), !.debuggerGot = Got(c),
                        !.result = GateVerdict(gate.scene, gate.strict, gate.info,
                                               gate.console_output, FetchedOutput(c))]
        /\ call' = [call EXCEPT ![GateTask] = IdleCall]
        /\ UNCHANGED <<ctorTimeout, selfTimeout, client, closed, nextChan,
                       faulted, sentOnFaulted, liveVars, toolVars, textVars, remoteVars>>

\* The runtime never answered: editor.get("/debugger/output") has returned or
\* raised (best effort); the gate returns the failure.
GateFallback ==
    LET c == call[GateTask]
    IN  /\ gate.pc = "fallback"
        /\ c.pc = "done"
        /\ gate' = [gate EXCEPT !.pc = "returned",
                        !.debugger_output = FetchedOutput(c), !.debuggerGot = Got(c),
                        !.result = GateUnreachable(gate.strict, FetchedOutput(c))]
        /\ call' = [call EXCEPT ![GateTask] = IdleCall]
        /\ UNCHANGED <<ctorTimeout, selfTimeout, client, closed, nextChan,
                       faulted, sentOnFaulted, liveVars, toolVars, textVars, remoteVars>>

\* The caller has the result (or the exception) and may call the tool again.
GateEnd ==
    /\ gate.pc \in {"returned", "raised"}
    /\ gate' = IdleGate
    /\ UNCHANGED <<clientVars, liveVars, toolVars, textVars, remoteVars>>

InitGate == gate = IdleGate

\* ------------------------------------------------------- specifications

vars == <<clientVars, liveVars, gateVars, toolVars, textVars, remoteVars>>

\* The client alone: callers get and post, one call at a time.
Init ==
    InitClient(CtorTimeouts) /\ InitLive({1}) /\ InitGate /\ InitTool /\ InitRemote /\ InitText({EmptyText})

Next ==
    \E k \in SeqTasks :
        \/ Get(k)
        \/ Post(k)
        \/ RecvFirst(k)
        \/ CloseDoneConn(k)
        \/ CloseDoneTimeout(k)
        \/ RecvRetry(k)
        \/ Return(k)

Spec == Init /\ [][Next]_vars

\* The liveness check, one check at a time, over the module-level clients.
InitCheck ==
    /\ InitClient({DEFAULT_TIMEOUT}) /\ InitLive(1..CACHE_TTL) /\ InitGate
    /\ InitTool /\ InitRemote /\ InitText({EmptyText})

NextLive ==
    \/ \E k \in SeqTasks :
        \/ CheckStart(k)
        \/ ProbeDone(k)
        \/ DiagDone(k)
        \/ CheckReturn(k)
        \/ RecvFirst(k)
        \/ CloseDoneConn(k)
        \/ CloseDoneTimeout(k)
        \/ RecvRetry(k)
    \/ Tick

SpecLive == InitCheck /\ [][NextLive]_vars

\* The launch gate over the module-level clients.
InitLaunch ==
    /\ InitClient({DEFAULT_TIMEOUT}) /\ InitLive({1}) /\ InitGate
    /\ InitTool /\ InitRemote /\ InitText({EmptyText})

NextGate ==
    \/ GateLaunch
    \/ GateLaunched
    \/ GateSettled
    \/ GateSlept
    \/ GateProbed
    \/ GateInfo
    \/ GateConsole
    \/ GateDebugger
    \/ GateFallback
    \/ GateEnd
    \/ RecvFirst(GateTask)
    \/ CloseDoneConn(GateTask)
    \/ CloseDoneTimeout(GateTask)
    \/ RecvRetry(GateTask)

SpecGate == InitLaunch /\ [][NextGate]_vars

\* The runtime tools, one call at a time, over the liveness check and the
\* module-level clients.
InitTools ==
    /\ InitClient({DEFAULT_TIMEOUT}) /\ InitLive(1..CACHE_TTL) /\ InitGate
    /\ InitTool /\ InitRemote /\ InitText({EmptyText})

NextTool ==
    \/ \E k \in SeqTasks :
        \/ ToolCall(k)
        \/ ProbeDone(k)
        \/ DiagDone(k)
        \/ ToolChecked(k)
        \/ ToolReplied(k)
        \/ ToolVisionDone(k)
        \/ ToolDirectorDone(k)
        \/ ToolEnd(k)
        \/ RecvFirst(k)
        \/ CloseDoneConn(k)
        \/ CloseDoneTimeout(k)
        \/ RecvRetry(k)
    \/ Tick

SpecTool == InitTools /\ [][NextTool]_vars

\* The wait-style tools, one call at a time.
NextWait ==
    \/ \E k \in SeqTasks :
        \/ WaitCall(k)
        \/ ProbeDone(k)
        \/ DiagDone(k)
        \/ ToolChecked(k)
        \/ ToolReplied(k)
        \/ ToolVisionDone(k)
        \/ ToolEnd(k)
        \/ RecvFirst(k)
        \/ CloseDoneConn(k)
        \/ CloseDoneTimeout(k)
        \/ RecvRetry(k)
    \/ Tick

SpecWait == InitTools /\ [][NextWait]_vars

\* Two callers use the editor client at the same time: each get/post runs up
\* to an await, where the other one may run.
ConcGet(k) ==
    /\ call[k].pc = "idle"
    /\ Request(k, "editor", "GET", "/info", "none", None)
    /\ UNCHANGED <<liveVars, gateVars, toolVars, textVars, remoteVars>>

ConcPost(k) ==
    /\ call[k].pc = "idle"
    /\ Request(k, "editor", "POST", "/game/run", "none", None)
    /\ UNCHANGED <<liveVars, gateVars, toolVars, textVars, remoteVars>>

NextConc ==
    \E k \in Tasks :
        \/ ConcGet(k)
        \/ ConcPost(k)
        \/ RecvFirst(k)
        \/ CloseDoneConn(k)
        \/ CloseDoneTimeout(k)
        \/ RecvRetry(k)
        \/ Return(k)

SpecConc == InitLaunch /\ [][NextConc]_vars

\* game_events, one call at a time, while the game records events.  The
\* clock stands still, so a runtime that has answered a probe stays Ready.
NextEvents ==
    \/ \E k \in SeqTasks :
        \/ EventsCall(k)
        \/ ProbeDone(k)
        \/ ToolChecked(k)
        \/ Serve(k)
        \/ ToolReplied(k)
        \/ ToolEnd(k)
        \/ RecvFirst(k)
        \/ CloseDoneConn(k)
        \/ CloseDoneTimeout(k)
        \/ RecvRetry(k)
    \/ RecordEvent

SpecEvents == InitTools /\ [][NextEvents]_vars

\* game_snapshot_diff, one call at a time, while the scene tree changes; the
\* clock moves between the calls.
NextDiff ==
    \/ \E k \in SeqTasks :
        \/ SnapshotDiffCall(k)
        \/ ProbeDone(k)
        \/ DiagDone(k)
        \/ ToolChecked(k)
        \/ Serve(k)
        \/ ToolReplied(k)
        \/ ToolEnd(k)
        \/ RecvFirst(k)
        \/ CloseDoneConn(k)
        \/ CloseDoneTimeout(k)
        \/ RecvRetry(k)
    \/ Elapse

InitDiffs ==
    /\ InitClient({DEFAULT_TIMEOUT}) /\ InitLive({CACHE_TTL}) /\ InitGate
    /\ InitTool /\ InitRemote /\ InitText({EmptyText})

SpecDiff == InitDiffs /\ [][NextDiff]_vars

\* Two runtime tools run their liveness checks at the same time: each check
\* runs up to an await, where the other one may run.  The checks overlap
\* within one reading of the clock.
NextLiveConc ==
    \E k \in Tasks :
        \/ CheckStart(k)
        \/ ProbeDone(k)
        \/ DiagDone(k)
        \/ CheckReturn(k)
        \/ RecvFirst(k)
        \/ CloseDoneConn(k)
        \/ CloseDoneTimeout(k)
        \/ RecvRetry(k)

SpecLiveConc == InitDiffs /\ [][NextLiveConc]_vars

\* The agent launches the game and, once godot_run_game has returned, calls
\* runtime tools, whose liveness checks run one at a time.
CheckAfterGate(k) ==
    /\ gate.pc = "returned"
    /\ CheckStart(k)

NextGateLive ==
    \/ GateLaunch
    \/ GateLaunched
    \/ GateSettled
    \/ GateSlept
    \/ GateProbed
    \/ GateInfo
    \/ GateConsole
    \/ GateDebugger
    \/ GateFallback
    \/ \E k \in SeqTasks :
        \/ CheckAfterGate(k)
        \/ ProbeDone(k)
        \/ DiagDone(k)
        \/ CheckReturn(k)
        \/ RecvFirst(k)
        \/ CloseDoneConn(k)
        \/ CloseDoneTimeout(k)
        \/ RecvRetry(k)
    \/ Elapse

SpecGateLive == InitDiffs /\ [][NextGateLive]_vars

\* The classifier and the crash report as functions of a text.
InitTexts ==
    /\ InitClient({DEFAULT_TIMEOUT}) /\ InitLive({1}) /\ InitGate
    /\ InitTool /\ InitRemote /\ InitText(TextInputs)

NextTexts == Classify \/ Diagnose \/ Truncate \/ NextText

SpecText == InitTexts /\ [][NextTexts]_vars

\* --------------------------------------------------------------- claims

\* min(requested, ceiling), worked out from the arguments the caller and the
\* constructor were given.
ExpectedTimeout(c) ==
    IF c.override = None
    THEN Min2(ctorTimeout[c.ep], MAX_TIMEOUT)
    ELSE Min2(c.override[1], MAX_TIMEOUT)

SameRequest(a, b) ==
    /\ a.method = b.method
    /\ a.path = b.path
    /\ a.sent = b.sent
    /\ a.t = b.t

\* C1: a get/post makes at most two attempts.  There is a second attempt
\* exactly when the first one raised a connection-level fault; it is sent on
\* a channel newly created after the first one was closed, and it carries the
\* same method, path, params/body and timeout.  A connection-level fault of
\* the second attempt propagates to the caller as it is.
C1_RetryOnce ==
    \A k \in Tasks :
        LET c == call[k]
            a == c.attempts
        IN  /\ Len(a) <= 2
            /\ Len(a) = 2 =>
                /\ a[1].outcome = "conn"
                /\ a[1].chan \in closed
                /\ a[2].created
                /\ a[2].chan # a[1].chan
                /\ SameRequest(a[1], a[2])
                /\ a[1].path = c.path /\ a[1].method = c.method
            /\ (c.pc = "done" /\ Len(a) >= 1 /\ a[1].outcome = "conn") => Len(a) = 2
            /\ (c.pc = "done" /\ Len(a) = 2 /\ a[2].outcome = "conn") =>
                    c.result.kind = "ConnectError"

\* Two connection-level faults in a row: the call has ended after its second attempt.
C1_Witness ==
    \E k \in Tasks :
        /\ call[k].pc = "done"
        /\ Len(call[k].attempts) = 2
        /\ call[k].attempts[2].outcome = "conn"
        /\ call[k].override = Some(2)

\* C2: when the first attempt of a get/post times out, there is no second
\* attempt, the channel is closed and the stored client is None when the call
\* ends, and the caller receives a TimeoutException that names the method, the
\* path and the clamped timeout.
C2_TimeoutNoRetry ==
    \A k \in Tasks :
        LET c == call[k]
            a == c.attempts
        IN  (c.pc = "done" /\ Len(a) >= 1 /\ a[1].outcome = "timeout") =>
                /\ Len(a) = 1
                /\ client[c.ep] = 0
                /\ a[1].chan \in closed
                /\ c.result = [kind |-> "TimeoutException", method |-> c.method,
                               path |-> c.path, t |-> ExpectedTimeout(c)]

\* A call asked for 135 s has timed out on its first attempt.
C2_Witness ==
    \E k \in Tasks :
        /\ call[k].pc = "done"
        /\ call[k].attempts[1].outcome = "timeout"
        /\ call[k].override = Some(135)
        /\ call[k].result.t = MAX_TIMEOUT

\* C3: every attempt of every get/post is sent with the timeout
\* min(override, ceiling) when an override is given and min(constructor
\* timeout, ceiling) otherwise; it is never above the ceiling of 120.
C3_TimeoutClamped ==
    \A k \in Tasks :
        \A i \in 1..Len(call[k].attempts) :
            /\ call[k].attempts[i].t = ExpectedTimeout(call[k])
            /\ call[k].attempts[i].t <= MAX_TIMEOUT

\* A retry of a call asked for 135 s is in flight with 120 s.
C3_Witness ==
    \E k \in Tasks :
        /\ Len(call[k].attempts) = 2
        /\ call[k].override = Some(135)
        /\ call[k].attempts[2].t = MAX_TIMEOUT

\* C4 (as claimed): no request is ever sent on a channel on which a
\* connection-level fault was raised earlier.
C4_FaultedNeverReused == ~sentOnFaulted

\* C5: for sequential checks, a check that starts less than the TTL after the
\* timestamp of an earlier successful probe returns Ready without a probe, and
\* a check that starts at or after the TTL of every earlier successful probe
\* issues exactly one probe.
C5_CacheWindow ==
    \A k \in Tasks :
        LET c == chk[k]
        IN  c.pc # "idle" =>
              /\ (\E t0 \in c.prior : c.now - t0 < CACHE_TTL) =>
                    (c.pc = "done" /\ c.probes = 0 /\ c.result = Ready)
              /\ (c.prior # {} /\ \A t0 \in c.prior : c.now - t0 >= CACHE_TTL) =>
                    c.probes = 1

\* A check one second after a successful probe was answered by the cache.
C5_Witness ==
    \E k \in Tasks :
        /\ chk[k].pc = "done"
        /\ chk[k].probes = 0
        /\ \E t0 \in chk[k].prior : chk[k].now = t0 + 1

\* C6: a check whose probe fails reports previously-up exactly when the latest
\* probe before it succeeded; it then runs the crash diagnostics and returns
\* their report, and otherwise returns the 'Game is not running' message.  The
\* diagnostics run at most once after a successful probe.
C6_PreviouslyUp ==
    /\ diagRuns <= 1
    /\ \A k \in Tasks :
        LET c == chk[k]
        IN  c.failed =>
              /\ c.was = (c.priorLast = "ok")
              /\ c.was => (c.pc = "diag" \/ (c.pc = "done" /\ c.result.kind = "Crash"))
              /\ ~c.was => (c.pc = "done" /\ c.result = GAME_NOT_RUNNING_MSG)

\* A failed probe right after a successful one has returned the crash report.
C6_Witness ==
    \E k \in Tasks :
        /\ chk[k].pc = "done"
        /\ chk[k].failed
        /\ chk[k].was
        /\ chk[k].result.kind = "Crash"
        /\ chk[k].result.lines # <<>>

\* C7: when a check returns Unreachable the cache holds 'never confirmed',
\* and the next sequential check issues a probe.
C7_InvalidatedOnFailure ==
    \A k \in Tasks :
        LET c == chk[k]
        IN  /\ (c.pc = "done" /\ c.result.kind # "Ready") => last_ok = 0
            /\ (c.pc # "idle" /\ c.afterFail) => c.probes = 1

\* The check after a crash report probes, at the very clock reading of the failure.
C7_Witness ==
    \E k \in Tasks :
        /\ chk[k].pc = "probing"
        /\ chk[k].afterFail
        /\ chk[k].prior # {}
        /\ lastProbe = "fail"

\* Some line of the text holds a fatal substring.
FatalLines(text) ==
    {n \in 1..Len(text) : \E p \in FATAL_PATTERNS : Contains(Lower(text[n]), p)}

\* C8: when a probe and the info request succeeded, the gate returns
\* FailedStartupErrors (ok = false, running = true, one record per distinct
\* fatal line, a log tail of at most 60 lines) exactly when strict mode is on
\* and a line of the console or of the debugger text is fatal; in every other
\* case it returns Succeeded (ok = true, running = true).
C8_StrictVerdict ==
    (gate.pc = "returned" /\ gate.probedOk) =>
        LET con == gate.console_output
            dbg == gate.debugger_output
            fatal == {Strip(con[n]) : n \in FatalLines(con)}
                        \cup {Strip(dbg[n]) : n \in FatalLines(dbg)}
            r == gate.result
        IN  IF gate.strict /\ fatal # {}
            THEN /\ ~r.ok /\ r.running
                 /\ r.startup_errors # None
                 /\ Len(r.startup_errors[1]) = Cardinality(fatal)
                 /\ r.log_tail # None
                 /\ Len(r.log_tail[1]) <= MAX_LOG_LINES
            ELSE /\ r.ok /\ r.running
                 /\ r.startup_errors = None
                 /\ r.game_info = Some(gate.info)

\* A strict launch has failed on a fatal line that only the debugger text holds.
C8_Witness ==
    /\ gate.pc = "returned"
    /\ gate.probedOk
    /\ gate.strict
    /\ ~gate.result.ok
    /\ FatalLines(gate.console_output) = {}
    /\ FatalLines(gate.debugger_output) # {}

\* C9 (as claimed): every invocation of the gate ends by returning Succeeded,
\* FailedStartupErrors or FailedUnreachable; none ends in a propagated
\* exception.
C9_AlwaysReturnsVerdict ==
    /\ gate.pc # "raised"
    /\ gate.pc = "returned" =>
            <<gate.result.ok, gate.result.running>>
                \in {<<TRUE, TRUE>>, <<FALSE, TRUE>>, <<FALSE, FALSE>>}

\* The state part of C10.
PollBudgetKept ==
    /\ gate.i < POLL_ITERATIONS
    /\ gate.pc \in {"sleep", "probe"} => (gate.settled /\ ~gate.probedOk)
    /\ gate.pc = "fallback" => (gate.i + 1 = POLL_ITERATIONS /\ ~gate.probedOk)
    /\ (gate.pc = "returned" /\ ~gate.probedOk) =>
            /\ gate.i + 1 = POLL_ITERATIONS
            /\ ~gate.result.ok /\ ~gate.result.running

\* The step part of C10: a probe fails only into the next of the 60
\* iterations or out of the loop, and the gate polls no more once it is out.
PollEnds ==
    /\ (gate.pc = "probe" /\ gate'.pc = "sleep") => gate'.i = gate.i + 1
    /\ gate.pc \in {"fallback", "returned", "raised"} =>
            gate'.pc \notin {"sleep", "probe", "settle"}

\* C10: once the gate polls and no probe succeeds, it runs the 60 iterations
\* of the loop, one probe each, then leaves the loop for good and returns
\* FailedUnreachable (ok = false, running = false).
C10_PollBudget == []PollBudgetKept /\ [][PollEnds]_vars

\* The gate has returned FailedUnreachable after the 60th failed probe.
C10_Witness ==
    /\ gate.pc = "returned"
    /\ ~gate.probedOk
    /\ gate.i = POLL_ITERATIONS - 1
    /\ ~gate.result.running

\* C11: every runtime tool runs the liveness check before anything else: it
\* has no request in flight on the runtime endpoint, and has sent none, unless
\* its check returned Ready; and when the check returned a message the tool
\* has returned that message as its result without a request to the runtime.
C11_CheckGatesTool ==
    \A k \in Tasks :
        LET t == tool[k]
        IN  /\ (call[k].pc # "idle" /\ call[k].ep = "runtime") =>
                    (t.pc = "request" /\ t.checked = "Ready")
            /\ t.reqs > 0 => t.checked = "Ready"
            /\ t.pc \notin {"idle", "check"} => t.checked # "none"
            /\ t.checked \in {"NotRunning", "Crash"} =>
                    /\ t.pc = "returned"
                    /\ t.reqs = 0
                    /\ t.result.kind = "message"
                    /\ t.result.err.kind = t.checked
                    /\ t.result.err.head \in {GAME_NOT_RUNNING_MSG.head, NO_DETAILS, ERRORS_FOUND}

\* game_snapshot has returned the crash report of its check, and sent nothing.
C11_Witness ==
    \E k \in Tasks :
        /\ tool[k].pc = "returned"
        /\ tool[k].name = "game_snapshot"
        /\ tool[k].result.kind = "message"
        /\ tool[k].result.err.kind = "Crash"
        /\ tool[k].reqs = 0

\* C12: is_available never raises.  Its probe is a GET /info with the fixed
\* timeout of 2 seconds, and whatever the probe's outcome (connection
\* refused, timeout, non-2xx status, any other error) it returns a boolean:
\* true exactly when the probe was answered with a success status.
C12_ProbeNeverRaises ==
    \A k \in Tasks :
        LET c == chk[k]
            p == c.probe
        IN  /\ c.pc # "raised"
            /\ p.outcome # "none" => (p.path = "/info" /\ p.t = 2)
            /\ p.outcome \notin {"none", "pending"} =>
                    /\ p.value = (p.outcome = "ok")
                    /\ p.value => (c.pc = "done" /\ c.result = Ready)
                    /\ ~p.value => c.failed

\* A probe answered with a non-2xx status has made the check fail.
C12_Witness ==
    \E k \in Tasks :
        /\ chk[k].probe.outcome = "status"
        /\ ~chk[k].probe.value
        /\ chk[k].pc = "done"
        /\ chk[k].failed

\* Some error marker occurs in the line, whatever the case of its letters.
HasMarker(line) == \E m \in ERROR_MARKERS : Contains(Lower(line), m)

\* C13: the crash diagnostics never raise.  Whatever editor.get did
\* (unreachable, timeout, error status, an answer without output or with an
\* empty one) the check returns a report; the report is the no-details
\* message when no error line was obtained and lists the error lines
\* otherwise, and in both cases it ends with the repair procedure.
C13_DiagnosticsAlwaysReport ==
    \A k \in Tasks :
        LET c == chk[k]
            r == c.result
            obtained == {n \in 1..Len(c.diagText) : HasMarker(c.diagText[n])}
        IN  /\ (c.failed /\ c.was) => c.pc \in {"diag", "done"}
            /\ (c.pc = "done" /\ c.failed /\ c.was) =>
                    /\ r.kind = "Crash"
                    /\ r.tail = REPAIR_STEPS
                    /\ c.diagFetch # "ok" => obtained = {}
                    /\ obtained = {} => (r.head = NO_DETAILS /\ r.lines = <<>>)
                    /\ obtained # {} => (r.head = ERRORS_FOUND /\ r.lines # <<>>)

\* The editor timed out on the diagnostics, and the check returned the
\* no-details report.
C13_Witness ==
    \E k \in Tasks :
        /\ chk[k].pc = "done"
        /\ chk[k].was
        /\ chk[k].diagFetch = "TimeoutException"
        /\ chk[k].result.head = NO_DETAILS
        /\ chk[k].result.tail = REPAIR_STEPS

\* The trimmed lines of text that hold an error marker.
MarkedLines(text) ==
    {Strip(text[n]) : n \in {i \in 1..Len(text) : HasMarker(text[i])}}

\* Where the trimmed line x occurs first in text.
FirstAt(text, x) ==
    CHOOSE n \in 1..Len(text) :
        Strip(text[n]) = x /\ \A m \in 1..(n - 1) : Strip(text[m]) # x

\* C14: for every log text, the lines a crash report lists are trimmed lines
\* of the text that hold an error marker; there are min(10, number of distinct
\* such lines) of them; and the i-th of them from the end is the distinct
\* error line that has exactly i - 1 distinct error lines first seen after
\* it.  Hence no line is listed twice, and never more than 10.
C14_ReportLines ==
    txt.op = "diagnose" =>
        LET r == txt.report.lines
            U == MarkedLines(txt.input)
            later(x) == Cardinality({y \in U :
                            FirstAt(txt.input, y) > FirstAt(txt.input, x)})
        IN  /\ Len(r) = Min2(Cardinality(U), 10)
            /\ \A i \in 1..Len(r) : r[i] \in U /\ later(r[i]) = Len(r) - i

\* A text of twelve distinct error lines has given a report of ten.
C14_Witness ==
    /\ txt.op = "diagnose"
    /\ Cardinality(MarkedLines(txt.input)) = 12
    /\ Len(txt.report.lines) = 10
    /\ txt.report.lines[10] = <<"exception">>

NO_ERROR_DETAILS == "no error details found"

\* C15 (as claimed): when no probe succeeded within the poll budget and the
\* editor gave no log text, the result of the gate carries the literal
\* message "no error details found".
C15_NoDetailsMessage ==
    (gate.pc = "returned" /\ ~gate.probedOk /\ gate.debugger_output = EmptyText) =>
        LET r == gate.result
        IN  \/ \E i \in 1..Len(r.description) : r.description[i] = NO_ERROR_DETAILS
            \/ r.startup_errors # None /\ \E j \in 1..Len(r.startup_errors[1]) :
                    r.startup_errors[1][j].message = <<NO_ERROR_DETAILS>>
            \/ r.log_tail # None /\ r.log_tail[1] = << <<NO_ERROR_DETAILS>> >>

\* The n-th smallest element of a set of numbers.
NthOf(S, n) == CHOOSE x \in S : Cardinality({y \in S : y < x}) = n - 1

\* C16: in strict mode, when no probe succeeded, startup_errors is the
\* classification of the debugger text when that classification is not empty,
\* and otherwise holds one parsed record for every line of the text with an
\* error marker, in order; so it is not empty when the text holds such a line.
C16_AdvisoryFallback ==
    (gate.pc = "returned" /\ ~gate.probedOk /\ gate.strict) =>
        LET dbg == gate.debugger_output
            se == gate.result.startup_errors[1]
            cls == CollectStartupErrors(dbg)
            adv == {n \in 1..Len(dbg) : HasMarker(dbg[n])}
        IN  /\ cls # <<>> => se = cls
            /\ cls = <<>> =>
                    /\ Len(se) = Cardinality(adv)
                    /\ \A j \in 1..Len(se) : se[j] = ParseErrorLine(dbg[NthOf(adv, j)])
            /\ adv # {} => se # <<>>

\* A strict launch never came up; the debugger text holds "ERROR: x" twice
\* and no fatal line, and the result holds two records.
C16_Witness ==
    /\ gate.pc = "returned"
    /\ ~gate.probedOk
    /\ gate.strict
    /\ FatalLines(gate.debugger_output) = {}
    /\ Len(gate.result.startup_errors[1]) = 2

\* The records of a sequence, as a set.
RecordsOf(out) == {out[j] : j \in 1..Len(out)}

\* C17: classify returns a record for a line exactly when the line holds a
\* fatal substring (in lower case, trimmed); for a text without such a line
\* it returns the empty list, warnings and other error words notwithstanding.
C17_OnlyFatalLines ==
    txt.op = "classify" =>
        LET fatal == FatalLines(txt.input)
        IN  /\ RecordsOf(txt.records) = {ParseErrorLine(txt.input[n]) : n \in fatal}
            /\ fatal = {} => txt.records = <<>>

\* A warning, an advisory error line and a fatal line gave one record.
C17_Witness ==
    /\ txt.op = "classify"
    /\ txt.input = <<LineWarning, LineAdvisory, LineFatalNoFile>>
    /\ Len(txt.records) = 1

\* The fatal lines of a text that no earlier fatal line equals once trimmed.
FirstFatal(text) ==
    {n \in FatalLines(text) :
        \A m \in FatalLines(text) : m < n => Strip(text[m]) # Strip(text[n])}

\* C18: one call of classify returns exactly one record for every distinct
\* trimmed fatal line, in the order in which the lines occur first; a call
\* that follows another one returns what a first call would.
C18_OncePerLine ==
    txt.op = "classify" =>
        LET first == FirstFatal(txt.input)
        IN  /\ Len(txt.records) =
                    Cardinality({Strip(txt.input[n]) : n \in FatalLines(txt.input)})
            /\ Len(txt.records) = Cardinality(first)
            /\ \A j \in 1..Len(txt.records) :
                    txt.records[j] = ParseErrorLine(txt.input[NthOf(first, j)])

\* The second call on a text that holds a fatal line twice, once padded, and
\* another fatal line before them.
C18_Witness ==
    /\ txt.op = "classify"
    /\ txt.calls = 2
    /\ txt.input = <<LineZero, LineFatal, LineFatalPadded>>
    /\ Len(txt.records) = 2

\* The tokens of s that start at i: res://, path lexemes up to j, a colon,
\* digits up to k.
TokensAt(s, i) ==
    {jk \in (1..Len(s)) \X (1..Len(s)) :
        /\ s[i] = "res://"
        /\ i < jk[1] /\ jk[1] + 2 <= jk[2]
        /\ \A n \in (i + 1)..jk[1] : PathLexeme(s[n])
        /\ s[jk[1] + 1] = ":"
        /\ \A n \in (jk[1] + 2)..jk[2] : s[n] \in Digits
        /\ (jk[2] = Len(s) \/ s[jk[2] + 1] \notin Digits)}

\* The record's file and line as the claim gives them, for a trimmed line.
ExpectedFileLine(s) ==
    LET starts == {i \in 1..Len(s) : TokensAt(s, i) # {}}
    IN  IF starts = {} THEN [file |-> None, line |-> None]
        ELSE LET i == NthOf(starts, 1)
                 jk == CHOOSE x \in TokensAt(s, i) : TRUE
             IN  [file |-> Some(SubSeq(s, i, jk[1])),
                  line |-> Some(IntOf(SubSeq(s, jk[1] + 2, jk[2])))]

\* C19: the file and the line of the record of a fatal line are the path and
\* the integer of the first res:// token of the line that ':<integer>'
\* follows immediately, and both are absent when the line has no such token.
C19_FirstToken ==
    txt.op = "classify" =>
        \A j \in 1..Len(txt.records) :
            LET s == Strip(txt.input[NthOf(FirstFatal(txt.input), j)])
                r == txt.records[j]
            IN  /\ r.file = ExpectedFileLine(s).file
                /\ r.line = ExpectedFileLine(s).line
                /\ (r.file = None) = (r.line = None)

\* Of "... res://a res://b:42 res://a:0" the record holds res://b and 42, and
\* the record of "Node not found: x" holds neither.
C19_Witness ==
    /\ txt.op = "classify"
    /\ txt.input = <<LineTwoTokens, LineFatalNoFile>>
    /\ txt.records[1].file = Some(<<"res://", "b">>)
    /\ txt.records[1].line = Some(42)
    /\ txt.records[2].file = None

\* C20 (as claimed): the line of every record classify produces is absent or
\* at least 1.
C20_LinePositive ==
    txt.op = "classify" =>
        \A j \in 1..Len(txt.records) :
            txt.records[j].line = None \/ txt.records[j].line[1] >= 1

\* The structured-error prefixes, colon included.
LEADING_PREFIXES ==
    { <<"script", " ", "error", ":">>, <<"parse", " ", "error", ":">>, <<"error", ":">> }

\* The lengths of the prefixes the trimmed line s begins with.
LeadingPrefix(s) ==
    {Len(p) : p \in {q \in LEADING_PREFIXES :
                        Len(q) <= Len(s) /\ Lower(SubSeq(s, 1, Len(q))) = q}}

\* C21 (as claimed): the message of the record of a fatal line is the trimmed
\* line without its leading 'SCRIPT ERROR:', 'Parse Error:' or 'ERROR:'
\* (whatever the case of the letters), and it is the whole trimmed line when
\* the trimmed line does not begin with one of them.
C21_LeadingPrefixOnly ==
    txt.op = "classify" =>
        \A j \in 1..Len(txt.records) :
            LET s == Strip(txt.input[NthOf(FirstFatal(txt.input), j)])
                n == LeadingPrefix(s)
            IN  IF n = {} THEN txt.records[j].message = s
                ELSE \E m \in n :
                        txt.records[j].message = Strip(SubSeq(s, m + 1, Len(s)))

\* The number of lines of a text, none for the empty text.
LineCount(text) == IF text = EmptyText THEN 0 ELSE Len(text)

\* C22 (as claimed): for every text and every max_lines >= 0 the result of
\* truncate_tail is the last min(max_lines, number of lines) lines of the
\* trimmed text, in order, and has no more than max_lines lines.
C22_TailBounded ==
    txt.op = "truncate" =>
        LET lines == StripText(txt.input)
            n == LineCount(lines)
            k == Min2(txt.max_lines, n)
        IN  /\ LineCount(txt.tail) = k
            /\ LineCount(txt.tail) <= txt.max_lines
            /\ k > 0 => txt.tail = SubSeq(lines, n - k + 1, n)

\* C23: while the blocking request of game_wait, game_wait_for or
\* game_input_sequence is in flight, the timeout of every attempt is at least
\* the duration the tool asked the runtime to wait plus the 15 second headroom.
C23_TimeoutCoversWait ==
    \A k \in Tasks :
        (tool[k].pc = "request" /\ tool[k].name \in WaitToolNames) =>
            \A i \in 1..Len(call[k].attempts) :
                call[k].attempts[i].t >= tool[k].duration + HEADROOM

\* The channels created and not closed.  Under SpecConc every channel is one
\* of the editor client.
LiveChannels == (1..(nextChan - 1)) \ closed

InFlight(k) == call[k].pc \in {"wait1", "wait2"}

\* C24: with concurrent get/post calls on one endpoint, at most one channel of
\* the endpoint is live, and every request in flight is on the endpoint's
\* current channel.
C24_OneLiveChannel ==
    /\ Cardinality(LiveChannels) <= 1
    /\ \A k \in Tasks :
            InFlight(k) =>
                call[k].attempts[Len(call[k].attempts)].chan = client[call[k].ep]

GateTerminal == {"returned", "raised"}

\* The gate calls editor.post("/game/run") in this step.
LaunchIssued ==
    /\ call[GateTask].pc = "idle"
    /\ call'[GateTask].pc = "wait1"
    /\ call'[GateTask].path = "/game/run"

Contributed(got) == IF got = None THEN EmptyText ELSE got[1]

\* C26: after a successful probe the console fetch and the debugger fetch are
\* independent.  Whatever the console fetch did, the debugger fetch is sent;
\* whatever either did, the gate returns a verdict, and the verdict is the
\* one of the texts fetched, a failed fetch counting as empty text.
C26_FetchesIndependent ==
    /\ [](/\ gate.pc = "debugger" =>
                /\ call[GateTask].pc # "idle"
                /\ call[GateTask].ep = "editor"
                /\ call[GateTask].path = "/debugger/output"
                /\ gate.console_output = Contributed(gate.consoleGot)
          /\ (gate.pc = "returned" /\ gate.probedOk) =>
                /\ gate.console_output = Contributed(gate.consoleGot)
                /\ gate.debugger_output = Contributed(gate.debuggerGot)
                /\ gate.result = GateVerdict(gate.scene, gate.strict, gate.info,
                                             Contributed(gate.consoleGot),
                                             Contributed(gate.debuggerGot)))
    /\ [][/\ gate.pc = "console" => gate'.pc \in {"console", "debugger"}
          /\ gate.pc = "debugger" => gate'.pc \in {"debugger", "returned"}]_vars

\* The console fetch raised, the debugger fetch brought a text, and the gate
\* has returned its verdict.
C26_Witness ==
    /\ gate.pc = "returned"
    /\ gate.probedOk
    /\ gate.consoleGot = None
    /\ gate.debuggerGot # None
    /\ gate.debuggerGot[1] # EmptyText

\* The operations on the event accumulator so far, in order.
Log == remote.log
RecordOps == {i \in 1..Len(Log) : Log[i].op = "record"}
DrainOps == {i \in 1..Len(Log) : Log[i].op = "drain"}
ClearingDrains == {i \in DrainOps : ~Log[i].peek}

Increasing(ids) == \A i, j \in 1..Len(ids) : i < j => ids[i] < ids[j]
Elements(ids) == {ids[i] : i \in 1..Len(ids)}
IsPrefix(a, b) == Len(a) <= Len(b) /\ SubSeq(b, 1, Len(a)) = a

\* C27: the ids record assigns start at 1, increase strictly in recording
\* order and are never used twice, whatever drains came in between.
C27_IdsIncrease ==
    /\ \A i \in RecordOps : Log[i].id >= 1
    /\ \A i \in RecordOps : (\A j \in RecordOps : j >= i) => Log[i].id = 1
    /\ \A i, j \in RecordOps : i < j => Log[i].id < Log[j].id

\* An event was drained and cleared, and another one recorded afterwards.
C27_Witness ==
    \E i \in ClearingDrains, j \in RecordOps : i < j /\ Log[i].out # <<>>

\* The clearing drain before operation i (0: none).
PreviousClearing(i) ==
    IF \E p \in ClearingDrains : p < i
    THEN CHOOSE p \in ClearingDrains : p < i /\ \A q \in ClearingDrains : q < i => q <= p
    ELSE 0

RECURSIVE RecordedIn(_, _)
\* The ids recorded by the operations from.. to, in order.
RecordedIn(from, to) ==
    IF from > to THEN <<>>
    ELSE IF Log[from].op = "record"
         THEN <<Log[from].id>> \o RecordedIn(from + 1, to)
         ELSE RecordedIn(from + 1, to)

\* game_events has returned what the runtime answered.
EventsReturned(k, peek) ==
    /\ tool[k].pc = "returned"
    /\ tool[k].name = "game_events"
    /\ tool[k].peek = peek
    /\ tool[k].result.kind = "data"

\* C28: a drain without peek returns, in id order, exactly the events
\* recorded since the drain without peek before it, and empties the store: a
\* drain right after it returns nothing, no event comes out of two such
\* drains, and what game_events() returned is no longer held.
C28_DrainClears ==
    /\ \A i \in ClearingDrains :
            /\ Log[i].out = RecordedIn(PreviousClearing(i) + 1, i - 1)
            /\ Increasing(Log[i].out)
            /\ (i + 1) \in DrainOps => Log[i + 1].out = <<>>
            /\ i = Len(Log) => remote.events = <<>>
    /\ \A i, j \in ClearingDrains :
            i # j => Elements(Log[i].out) \cap Elements(Log[j].out) = {}
    /\ \A k \in Tasks :
            EventsReturned(k, FALSE) =>
                Elements(tool[k].reply.events) \cap Elements(remote.events) = {}

\* game_events() has returned an event; an event was drained and the drain
\* after it brought nothing.
C28_Witness ==
    /\ \E k \in Tasks : EventsReturned(k, FALSE) /\ tool[k].reply.events # <<>>
    /\ \E i \in ClearingDrains :
            Log[i].out # <<>> /\ (i + 1) \in DrainOps /\ Log[i + 1].out = <<>>

\* C29: a drain with peek leaves the store as it is: the drain right after
\* it, with peek or without, returns the same list, and what
\* game_events(peek=True) returned is still held, in the same order.
C29_PeekKeeps ==
    /\ \A i \in DrainOps :
            Log[i].peek =>
                /\ (i + 1) \in DrainOps => Log[i + 1].out = Log[i].out
                /\ i = Len(Log) => remote.events = Log[i].out
    /\ \A k \in Tasks :
            EventsReturned(k, TRUE) => IsPrefix(tool[k].reply.events, remote.events)

\* Two peeks in a row and then a drain without peek, all three returning the
\* same events.
C29_Witness ==
    \E i \in DrainOps :
        /\ Log[i].peek /\ Log[i].out # <<>>
        /\ (i + 1) \in DrainOps /\ Log[i + 1].peek
        /\ (i + 2) \in ClearingDrains /\ Log[i + 2].out = Log[i].out

\* The latest diff calls, in order: the baseline each found, the snapshot it
\* was passed, what it returned.
Diffs == remote.diffs

\* A diff call is made in this step.
DiffStep == remote'.ndiffs = remote.ndiffs + 1

\* game_snapshot_diff has returned what the runtime answered.
DiffReturned(k) ==
    /\ tool[k].pc = "returned"
    /\ tool[k].name = "game_snapshot_diff"
    /\ tool[k].result.kind = "data"

\* C30: a diff call that finds no baseline returns nodes_added, nodes_removed
\* and nodes_changed all empty, whatever the snapshot, and stores the
\* snapshot as the baseline; game_snapshot_diff then reports 0 added,
\* 0 removed, 0 changed.
C30_FirstDiffEmpty ==
    /\ [](/\ \A i \in 1..Len(Diffs) : Diffs[i].base = None => Diffs[i].out = EmptyDiff
          /\ \A k \in Tasks :
                (DiffReturned(k) /\ Diffs[Len(Diffs)].base = None) =>
                    /\ tool[k].reply.diff = EmptyDiff
                    /\ tool[k].description = <<0, 0, 0>>)
    /\ [][(DiffStep /\ remote.baseline = None) =>
            /\ remote'.diffs[Len(remote'.diffs)].base = None
            /\ remote'.diffs[Len(remote'.diffs)].out = EmptyDiff
            /\ remote'.baseline = Some(remote'.diffs[Len(remote'.diffs)].snap)]_vars

\* The first diff call was passed a snapshot with a node in it, found no
\* baseline, and the snapshot is the baseline now; game_snapshot_diff has
\* returned.
C30_Witness ==
    /\ remote.ndiffs = 1
    /\ Diffs[1].base = None
    /\ Present(Diffs[1].snap) # {}
    /\ Diffs[1].snap # StartSnapshot
    /\ remote.baseline = Some(Diffs[1].snap)
    /\ \E k \in Tasks : DiffReturned(k)

\* The paths nodes_changed reports.
ChangedPaths(out) == {c.path : c \in out.nodes_changed}

\* C31: against a baseline, diff reports as added exactly the paths only the
\* new snapshot has, as removed exactly the paths only the baseline has, as
\* changed exactly the paths both have with different property values, each
\* with the old and the new value; a path that stayed as it was is in none of
\* the three.  game_snapshot_diff returns that diff and counts it.
C31_DiffExact ==
    /\ \A i \in 1..Len(Diffs) :
            Diffs[i].base # None =>
                LET old == Diffs[i].base[1]
                    new == Diffs[i].snap
                    out == Diffs[i].out
                IN  /\ out.nodes_added =
                            {p \in NodePaths : old[p] = "absent" /\ new[p] # "absent"}
                    /\ out.nodes_removed =
                            {p \in NodePaths : old[p] # "absent" /\ new[p] = "absent"}
                    /\ ChangedPaths(out) =
                            {p \in NodePaths : /\ old[p] # "absent"
                                               /\ new[p] # "absent"
                                               /\ old[p] # new[p]}
                    /\ \A c \in out.nodes_changed :
                            c.old = old[c.path] /\ c.new = new[c.path]
                    /\ Cardinality(out.nodes_changed) = Cardinality(ChangedPaths(out))
                    /\ \A p \in NodePaths :
                            old[p] = new[p] =>
                                p \notin out.nodes_added \cup out.nodes_removed
                                            \cup ChangedPaths(out)
    /\ \A k \in Tasks :
            DiffReturned(k) =>
                /\ tool[k].reply.diff = Diffs[Len(Diffs)].out
                /\ tool[k].description =
                        <<Cardinality(Diffs[Len(Diffs)].out.nodes_added),
                          Cardinality(Diffs[Len(Diffs)].out.nodes_removed),
                          Cardinality(Diffs[Len(Diffs)].out.nodes_changed)>>

\* The second diff call found one node gone and one node's property changed,
\* and game_snapshot_diff has returned it.
C31_Witness ==
    /\ remote.ndiffs = 2
    /\ Diffs[2].base = Some(Diffs[1].snap)
    /\ Diffs[2].out.nodes_removed = {"Player"}
    /\ ChangedPaths(Diffs[2].out) = {"Enemy"}
    /\ \E k \in Tasks : DiffReturned(k)

\* The latest diff call.
LatestDiff(r) == r.diffs[Len(r.diffs)]

\* A runtime tool returns the message of a failed liveness check in this step.
UnreachableStep ==
    \E k \in Tasks :
        /\ tool[k].pc = "check"
        /\ tool'[k].pc = "returned"
        /\ tool'[k].result.kind = "message"

RetryTimedOut(c) ==
    /\ c.pc = "done"
    /\ Len(c.attempts) = 2
    /\ c.attempts[1].outcome = "conn"
    /\ c.attempts[2].outcome = "timeout"

\* C33: a retry that times out ends like any timeout: there is no third
\* attempt, the channel of the retry is closed and no longer stored, and the
\* caller gets the TimeoutFailure naming the path and the effective timeout.
C33_RetryTimeoutIsTimeout ==
    \A k \in Tasks :
        RetryTimedOut(call[k]) =>
            /\ call[k].result = TimeoutFailure(call[k])
            /\ client[call[k].ep] = 0
            /\ call[k].attempts[2].chan \in closed

\* Check k starts in this step and takes the cache's word: no probe.
StartsOnCache(k) ==
    /\ chk[k].pc = "idle"
    /\ chk'[k].pc = "done"
    /\ chk'[k].probes = 0

\* Check j started after the latest check had returned Unreachable, and its
\* probe has succeeded.
ProbedSinceFailure(j) ==
    /\ chk[j].pc = "done"
    /\ chk[j].afterFail
    /\ chk[j].probes = 1
    /\ chk[j].probe.value

\* C34: while the latest check to return has returned Unreachable, a check
\* that starts issues a probe, unless the probe of a check that started after
\* that return has succeeded; a success written by a check that started
\* before does not spare the new check its probe.
C34_NoStaleRearm ==
    [][\A k \in Tasks :
            (StartsOnCache(k) /\ lastReturn = "Unreachable") =>
                \E j \in Tasks : ProbedSinceFailure(j)]_vars

\* The attempts of call c that a non-2xx response answered.
StatusAttempts(c) == {i \in 1..Len(c.attempts) : c.attempts[i].outcome = "status"}

\* A non-2xx response arrives for task k's request.
StatusStep(k) ==
    /\ StatusAttempts(call[k]) = {}
    /\ StatusAttempts(call'[k]) # {}

\* C35: a non-2xx response ends get/post with HTTPStatusError: the attempt it
\* answered is the call's last one (the only one when it answered the first
\* attempt), and the step that receives it closes, replaces and creates no
\* channel, so the channel the attempt was sent on is still the stored, open
\* one that the next request on that endpoint goes out on.
C35_StatusPropagates ==
    /\ [](\A k \in Tasks : \A i \in StatusAttempts(call[k]) :
            /\ i = Len(call[k].attempts)
            /\ call[k].pc = "done"
            /\ call[k].result.kind = "HTTPStatusError")
    /\ [][\A k \in Tasks : StatusStep(k) =>
            /\ UNCHANGED <<client, closed, nextChan>>
            /\ client'[call[k].ep] = call'[k].attempts[Len(call'[k].attempts)].chan
            /\ ~NeedsNewClient(client'[call[k].ep])
            /\ GetClient(client'[call[k].ep]) = client[call[k].ep]]_vars

\* A first attempt on a channel that served an earlier request is answered by
\* a non-2xx response.
C35_Witness ==
    \E k \in Tasks :
        /\ call[k].pc = "done"
        /\ call[k].result.kind = "HTTPStatusError"
        /\ Len(call[k].attempts) = 1
        /\ ~call[k].attempts[1].created
        /\ client[call[k].ep] = call[k].attempts[1].chan
        /\ client[call[k].ep] \notin closed

\* C36 (as claimed): a check that returns Ready without a probe started less
\* than the TTL after an earlier probe succeeded, and not right after a check
\* that returned Unreachable, whatever the clock reads.
C36_ReadyNeedsFreshSuccess ==
    \A k \in Tasks :
        LET c == chk[k]
        IN  (c.pc = "done" /\ c.result = Ready /\ c.probes = 0) =>
                /\ \E t0 \in c.prior : c.now - t0 < CACHE_TTL
                /\ ~c.afterFail

\* The gate has returned a strict-mode Succeeded after a successful probe.
StrictPass ==
    /\ gate.pc = "returned"
    /\ gate.probedOk
    /\ gate.strict
    /\ gate.result.ok

\* C37 (as claimed): a strict-mode Succeeded is returned only when the console
\* fetch and the debugger fetch both brought a text and neither text holds a
\* fatal line.
C37_StrictNeedsBothLogs ==
    StrictPass =>
        \A got \in {gate.consoleGot, gate.debuggerGot} :
            got # None /\ FatalLines(got[1]) = {}

\* C37: in strict mode, after a successful probe, the gate returns Succeeded
\* exactly when no text that a fetch brought holds a fatal line; a fetch that
\* failed brings no text and does not stand in the way of Succeeded.
C37_StrictOnRetrieved ==
    (gate.pc = "returned" /\ gate.probedOk /\ gate.strict) =>
        (gate.result.ok <=>
            \A got \in {gate.consoleGot, gate.debuggerGot} :
                got # None => FatalLines(got[1]) = {})

\* Both fetches failed and the strict gate returned Succeeded.
C37_Witness ==
    /\ StrictPass
    /\ gate.consoleGot = None
    /\ gate.debuggerGot = None

\* The first liveness check since the server started has ended, after the
\* gate returned Succeeded, and its probe failed.
FirstCheckFailedAfterSuccess(k) ==
    /\ gate.pc = "returned"
    /\ gate.result.ok
    /\ lastReturn = "none"
    /\ chk[k].pc = "done"
    /\ chk[k].failed

\* C38 (as claimed): when the gate returned Succeeded and the first liveness
\* check afterwards finds the runtime unreachable, that check reports
\* previously-up and returns the crash diagnostics, not the 'Game is not
\* running' message.
C38_CrashAfterLaunch ==
    \A k \in Tasks :
        FirstCheckFailedAfterSuccess(k) =>
            /\ chk[k].was
            /\ chk[k].result.kind = "Crash"

====
